---- MODULE Spec2Model ----
(***************************************************************************)
(* A model of the transitive-dependency risk aggregation engine of the     *)
(* OSS maintenance cost analyser: the OSV batch fetcher with its shared    *)
(* cache (src/api/osv.js), the version resolver (src/utils/version.js),    *)
(* the dependency-graph fallback search and the per-project orchestration  *)
(* (src/analyzer.js).                                                      *)
(*                                                                         *)
(* JavaScript runs the program on one thread: code between two awaits is   *)
(* one atomic step, and a step is taken when a network response arrives.   *)
(* Each action below is one such step.                                     *)
(***************************************************************************)
EXTENDS Integers, Sequences, FiniteSets, TLC

\* ------------------------------------------------------------------ bounds
\* Largest concurrency limit (options.concurrency / maxConcurrent) explored.
MaxConcurrency == 2
\* Longest packageNames list handed to a direct queryVulnerabilitiesBatch call.
MaxNames == 3
\* Longest finding list the vulnerability source returns for one package.
MaxVulns == 1

\* ------------------------------------------------------------- data model
\* npm package names.
Names == {"a", "b", "c"}

\* The identifier of a finding that carries none (vuln.id is undefined).
NoId == "<undefined>"

\* Identifiers the vulnerability source hands out in the fetcher model.
VulnIds == {"CVE-1"}

Min(x, y) == IF x < y THEN x ELSE y

\* A finding as OSV returns it for package `name`: its id, and a payload that
\* tells the copies of one advisory apart (the package it was returned for
\* and its place in that package's list).
Finding(id, name, n) == [id |-> id, source |-> name, n |-> n]

\* Every list of at most MaxVulns findings OSV may return for `name`.
FindingLists(name) ==
  UNION { { [k \in 1..len |-> Finding(ids[k], name, k)] : ids \in [1..len -> VulnIds] }
          : len \in 0..MaxVulns }

\* ---------------------------------------------------- JavaScript helpers
\* Array.prototype.slice(from, to) on 0-based indexes, `to` clipped to length.
SliceNoEnd(s, from, to) ==
  [k \in 1..(IF Len(s) > from THEN Len(s) - from ELSE 0) |-> s[from + k]]

Slice(s, from, to) ==
  LET end == Min(to, Len(s))
  IN [k \in 1..(IF end > from THEN end - from ELSE 0) |-> s[from + k]]

\* A JavaScript Map as the sequence of its entries in insertion order.
MapHas(m, key) == \E k \in 1..Len(m) : m[k].name = key

MapGet(m, key) == m[CHOOSE k \in 1..Len(m) : m[k].name = key].vulns

\* Map.prototype.set: an existing key keeps its place, a new key goes last.
MapSet(m, key, value) ==
  IF MapHas(m, key)
  THEN [k \in 1..Len(m) |-> IF m[k].name = key THEN [name |-> key, vulns |-> value] ELSE m[k]]
  ELSE Append(m, [name |-> key, vulns |-> value])

\* The shared vulnerability cache: package name -> entry.
NoEntry == [has |-> FALSE, vulns |-> <<>>]

CacheSetNonEmpty(cache, name, vulns) ==
  IF vulns = <<>> THEN cache ELSE [cache EXCEPT ![name] = [has |-> TRUE, vulns |-> vulns]]

CacheSet(cache, name, vulns) == [cache EXCEPT ![name] = [has |-> TRUE, vulns |-> vulns]]

\* ------------------------------------------------------------------ state
VARIABLES
  concurrency,   \* the concurrency limit N of the run
  vulnCache,     \* the shared cache: name -> [has, vulns]
  fetchCount,    \* name -> number of POST /v1/query requests issued so far
  task,          \* task id -> the local state of one asynchronous call
  project,       \* the local state of analyzeProject
  pure,          \* a call of one of the pure functions: its arguments and result
  world          \* what OSV and deps.dev hold, and the network faults still to come

vars == <<concurrency, vulnCache, fetchCount, task, project, pure, world>>

\* No analyzeProject run, no pure call.
NoProject == [pc |-> "none", dependencies |-> <<>>, i |-> 0, packages |-> <<>>]

NoPure == [fn |-> "none", done |-> FALSE]

\* ------------------------------------------------- OSV client (osv.js)
\* What one POST /v1/query can come back with.
\* A 2xx body carries the list OSV holds for the name (no vulns field at all
\* when that list is empty); a fault is a non-2xx status or a transport error.
OsvOutcomes(name) ==
  { [kind |-> "ok", hasVulns |-> TRUE, vulns |-> l] : l \in world.osv[name] }
  \cup { [kind |-> "ok", hasVulns |-> FALSE, vulns |-> <<>>] : l \in world.osv[name] \cap { <<>> } }
  \cup { [kind |-> k, hasVulns |-> FALSE, vulns |-> <<>>] :
           k \in IF world.faults > 0 THEN {"http_error", "transport_error"} ELSE {} }

Failed(outcome) == outcome.kind \in {"http_error", "transport_error"}

\* The world after a response: a fault uses up one of the faults to come.
AfterOutcome(failed) == IF failed THEN [world EXCEPT !.faults = @ - 1] ELSE world

\* A world in which only OSV matters: any list may come back for any name.
OsvOnlyWorld(faults) ==
  [osv |-> [n \in Names |-> FindingLists(n)],
   versions |-> [n \in Names |-> <<>>],
   graphs |-> [n \in Names |-> {}],
   faults |-> faults]

\* queryVulnerabilities with its catch removed: a failure rejects the promise.
queryVulnerabilitiesNoCatch(outcome) ==
  IF Failed(outcome)
  THEN [threw |-> TRUE, hasVulns |-> FALSE, vulns |-> <<>>]
  ELSE [threw |-> FALSE, hasVulns |-> outcome.hasVulns, vulns |-> outcome.vulns]

\* queryVulnerabilities: the response body, or { vulns: [] } on any failure.
queryVulnerabilities(outcome) ==
  IF Failed(outcome)
  THEN [threw |-> FALSE, hasVulns |-> TRUE, vulns |-> <<>>]
  ELSE [threw |-> FALSE, hasVulns |-> outcome.hasVulns, vulns |-> outcome.vulns]

\* data.vulns || []
VulnsOf(data) == IF data.hasVulns THEN data.vulns ELSE <<>>

\* JavaScript truthiness of vuln.id: undefined and the empty string are falsy.
Truthy(id) == id # NoId /\ id # ""

\* seen.has(id) over the findings kept so far.
SeenHas(seen, id) == \E k \in 1..Len(seen) : seen[k].id = id

\* The inner loop of deduplicateVulnerabilities (lines 194-198) with the
\* vuln.id test left out.
RECURSIVE DedupListNoIdTest(_, _, _)
DedupListNoIdTest(vulns, k, seen) ==
  IF k > Len(vulns) THEN seen
  ELSE DedupListNoIdTest(vulns, k + 1,
         IF ~SeenHas(seen, vulns[k].id) THEN Append(seen, vulns[k]) ELSE seen)

\* The inner loop of deduplicateVulnerabilities (lines 194-198) over one list.
RECURSIVE DedupList(_, _, _)
DedupList(vulns, k, seen) ==
  IF k > Len(vulns) THEN seen
  ELSE DedupList(vulns, k + 1,
         IF Truthy(vulns[k].id) /\ ~SeenHas(seen, vulns[k].id)
         THEN Append(seen, vulns[k]) ELSE seen)

\* The outer loop (line 193): the entries of the map in insertion order.
RECURSIVE DedupFrom(_, _, _)
DedupFrom(m, k, seen) ==
  IF k > Len(m) THEN seen
  ELSE DedupFrom(m, k + 1, DedupList(m[k].vulns, 1, seen))

\* deduplicateVulnerabilities(vulnsByPackage): Array.from(seen.values()).
deduplicateVulnerabilities(vulnsByPackage) == DedupFrom(vulnsByPackage, 1, <<>>)

\* The state of one slot of uncachedNames: not yet queried, in flight, done.
NoOutcome == [kind |-> "none", hasVulns |-> FALSE, vulns |-> <<>>]

Idle == [state |-> "idle", outcome |-> NoOutcome, data |-> queryVulnerabilities(NoOutcome)]

\* Lines 155-163: split packageNames into cached results and uncachedNames.
RECURSIVE PartitionFrom(_, _, _, _)
PartitionFrom(names, k, cache, acc) ==
  IF k > Len(names) THEN acc
  ELSE LET name == names[k]
       IN IF cache[name].has
          THEN PartitionFrom(names, k + 1, cache,
                 [acc EXCEPT !.results = MapSet(@, name, cache[name].vulns)])
          ELSE PartitionFrom(names, k + 1, cache,
                 [acc EXCEPT !.uncached = Append(@, name)])

Partition(names, cache) ==
  PartitionFrom(names, 1, cache, [results |-> <<>>, uncached |-> <<>>])

\* The batch of the loop iteration at index i (line 167).
BatchOf(tk, n) == Slice(tk.uncachedNames, tk.i, tk.i + n)

\* The slots of uncachedNames the current batch covers.
BatchSlots(tk, n) == (tk.i + 1)..(tk.i + Len(BatchOf(tk, n)))

\* Lines 176-179: write the batch's results to the cache and to results.
RECURSIVE StoreBatch(_, _, _, _)
StoreBatch(tk, j, hi, acc) ==
  IF j > hi THEN acc
  ELSE LET name == tk.uncachedNames[j]
           vulns == VulnsOf(tk.answers[j].data)
       IN StoreBatch(tk, j + 1, hi,
            [cache |-> CacheSet(acc.cache, name, vulns),
             results |-> MapSet(acc.results, name, vulns)])

\* The queries in flight for one call.
InFlight(tk) == { j \in 1..Len(tk.answers) : tk.answers[j].state = "inflight" }

\* [...new Set(list)]: the list without repetitions, first occurrences kept.
RECURSIVE FirstOccurrences(_, _, _)
FirstOccurrences(names, k, acc) ==
  IF k > Len(names) THEN acc
  ELSE FirstOccurrences(names, k + 1,
         IF \E q \in 1..Len(acc) : acc[q] = names[k] THEN acc ELSE Append(acc, names[k]))

\* null for a package-info response, and for a dependency graph.
NoPackageInfo == [found |-> FALSE, hasVersions |-> FALSE, versions |-> <<>>]

NoGraph == [found |-> FALSE, hasNodes |-> FALSE, nodes |-> <<>>]

\* A task that has not started anything: a direct queryVulnerabilitiesBatch
\* call ("batch"), a getTransitiveCVEMetrics call ("transitive") or an
\* analyzePackage call ("package").
NewTask(kind, name, range, names) ==
  [kind |-> kind, pc |-> "ready",
   \* getTransitiveCVEMetrics / analyzePackage
   packageName |-> name, versionRange |-> range,
   packageInfo |-> NoPackageInfo,
   resolvedVersion |-> [kind |-> "null", maj |-> 0, min |-> 0, pat |-> 0, pre |-> "", v |-> FALSE],
   originalVersion |-> [kind |-> "null", maj |-> 0, min |-> 0, pat |-> 0, pre |-> "", v |-> FALSE],
   fallbackIndex |-> 0, graphLog |-> <<>>, gotGraph |-> FALSE,
   treePackages |-> <<>>,
   ret |-> [vulns |-> <<>>, transitivePackageCount |-> 0, directPackageCount |-> 0,
            totalPackagesInTree |-> 0, packageNames |-> <<>>],
   versionInfoFor |-> [kind |-> "null", maj |-> 0, min |-> 0, pat |-> 0, pre |-> "", v |-> FALSE],
   result |-> [found |-> FALSE, error |-> FALSE],
   \* queryVulnerabilitiesBatch
   packageNames |-> names,
   results |-> <<>>, uncachedNames |-> <<>>, i |-> 0, answers |-> <<>>,
   entryCache |-> [n \in Names |-> NoEntry],
   calls |-> 0,
   priorCache |-> [n \in Names |-> NoEntry],
   priorFetch |-> [n \in Names |-> 0],
   priorResults |-> <<>>]

\* Lines 151-163: entering queryVulnerabilitiesBatch.
EnterBatch(tk, names, cache) ==
  LET p == Partition(names, cache)
  IN [tk EXCEPT !.packageNames = names,
                !.results = p.results,
                !.uncachedNames = p.uncached,
                !.i = 0,
                !.answers = [j \in 1..Len(p.uncached) |-> Idle],
                !.entryCache = cache,
                !.calls = @ + 1]

\* treePackages.filter((p) => p.relation === relation).length
CountRelation(treePackages, relation) ==
  Cardinality({ k \in 1..Len(treePackages) : treePackages[k].relation = relation })

\* analyzer.js lines 177-189: deduplicate and build the return value of
\* getTransitiveCVEMetrics; analyzePackage then calls getPackageMetrics, whose
\* first step is a getPackageInfo request.
FinishTransitive(tk) ==
  [tk EXCEPT !.pc = IF tk.kind = "transitive" THEN "returned" ELSE "awaitMetricsInfo",
             !.ret = [vulns |-> deduplicateVulnerabilities(tk.results),
                      transitivePackageCount |-> CountRelation(tk.treePackages, "INDIRECT"),
                      directPackageCount |-> CountRelation(tk.treePackages, "DIRECT"),
                      totalPackagesInTree |-> Len(tk.packageNames),
                      packageNames |-> tk.packageNames]]

\* osv.js line 182: the call returns its results map to its caller.
ReturnBatch(tk) ==
  IF tk.kind = "batch" THEN [tk EXCEPT !.pc = "returned"] ELSE FinishTransitive(tk)

\* Lines 166-174: the loop test and, if it passes, the issue of one batch.
LoopHead(tk, n) ==
  IF tk.i < Len(tk.uncachedNames)
  THEN [tk EXCEPT !.pc = "awaitBatch",
                  !.answers = [j \in 1..Len(@) |->
                                 IF j \in BatchSlots(tk, n)
                                 THEN [Idle EXCEPT !.state = "inflight"]
                                 ELSE @[j]]]
  ELSE ReturnBatch(tk)

\* The requests a step from task state `old` to `new` has issued, per name.
Issued(old, new, name) ==
  Cardinality({ j \in InFlight(new) :
                  /\ new.uncachedNames[j] = name
                  /\ (j > Len(old.answers) \/ old.uncachedNames # new.uncachedNames
                      \/ old.answers[j].state # "inflight") })

\* ----------------------------------------------------------- the actions
\* A caller invokes queryVulnerabilitiesBatch(packageNames, {cache, concurrency}).
CallBatch(t) ==
  /\ task[t].kind = "batch"
  /\ task[t].pc = "ready"
  /\ LET tk == LoopHead(EnterBatch(task[t], task[t].packageNames, vulnCache), concurrency)
     IN /\ task' = [task EXCEPT ![t] = tk]
        /\ fetchCount' = [n \in Names |-> fetchCount[n] + Issued(task[t], tk, n)]
  /\ UNCHANGED <<concurrency, vulnCache, project, pure, world>>

\* The response to the query in slot j arrives (or the request fails).
QueryResponse(t, j) ==
  /\ task[t].pc = "awaitBatch"
  /\ j \in InFlight(task[t])
  /\ \E outcome \in OsvOutcomes(task[t].uncachedNames[j]) :
       /\ task' = [task EXCEPT ![t].answers[j] =
                     [state |-> "done", outcome |-> outcome,
                      data |-> queryVulnerabilities(outcome)]]
       /\ world' = AfterOutcome(Failed(outcome))
  /\ UNCHANGED <<concurrency, vulnCache, fetchCount, project, pure>>

\* Promise.all of the batch settles: store the results, then loop.
BatchSettled(t) ==
  /\ task[t].pc = "awaitBatch"
  /\ InFlight(task[t]) = {}
  /\ LET tk == task[t]
         slots == BatchSlots(tk, concurrency)
         rejected == \E j \in slots : tk.answers[j].data.threw
         stored == StoreBatch(tk, tk.i + 1, tk.i + Len(BatchOf(tk, concurrency)),
                              [cache |-> vulnCache, results |-> tk.results])
         next == LoopHead([tk EXCEPT !.results = stored.results,
                                     !.i = @ + concurrency], concurrency)
     IN IF rejected
        THEN /\ task' = [task EXCEPT ![t].pc = "rejected"]
             /\ UNCHANGED <<vulnCache, fetchCount>>
        ELSE /\ vulnCache' = stored.cache
             /\ task' = [task EXCEPT ![t] = next]
             /\ fetchCount' = [n \in Names |-> fetchCount[n] + Issued(tk, next, n)]
  /\ UNCHANGED <<concurrency, project, pure, world>>

\* The caller calls again with the same names and the same cache.
CallAgain(t) ==
  /\ task[t].kind = "batch"
  /\ task[t].pc = "returned"
  /\ task[t].calls = 1
  /\ task' = [task EXCEPT ![t].pc = "ready",
                          ![t].priorCache = vulnCache,
                          ![t].priorFetch = fetchCount,
                          ![t].priorResults = task[t].results]
  /\ UNCHANGED <<concurrency, vulnCache, fetchCount, project, pure, world>>

\* ------------------------------------------ one queryVulnerabilitiesBatch
\* Every list of at most MaxNames package names (repetitions allowed).
NameLists == UNION { [1..len -> Names] : len \in 0..MaxNames }

\* A cache a caller may pass in: each name absent or seeded with some list.
SeededCaches ==
  { c \in [Names -> { NoEntry } \cup
                    { [has |-> TRUE, vulns |-> l] : l \in UNION { FindingLists(n) : n \in Names } }] :
      \A n \in Names : c[n].has => c[n].vulns \in FindingLists(n) }

InitBatch ==
  /\ concurrency \in 1..MaxConcurrency
  /\ vulnCache \in SeededCaches
  /\ fetchCount = [n \in Names |-> 0]
  /\ \E names \in NameLists :
       \* entries for names the call never looks up are left out
       /\ \A n \in Names : vulnCache[n].has => \E k \in 1..Len(names) : names[k] = n
       /\ task = [t \in {1} |-> NewTask("batch", "", <<>>, names)]
  /\ project = NoProject
  /\ pure = NoPure
  /\ world = OsvOnlyWorld(MaxNames)

NextBatch ==
  \/ \E t \in DOMAIN task : CallBatch(t)
  \/ \E t \in DOMAIN task : \E j \in 1..Len(task[t].answers) : QueryResponse(t, j)
  \/ \E t \in DOMAIN task : BatchSettled(t)
  \/ \E t \in DOMAIN task : CallAgain(t)

SpecBatch == InitBatch /\ [][NextBatch]_vars

\* ------------------------------------------- deduplicateVulnerabilities
\* Longest finding list of one package in a deduplication input.
MaxDedupVulns == 2

\* Identifiers in a deduplication input: none, the empty string, two real ones.
DedupIds == {NoId, "", "CVE-1", "CVE-2"}

DedupNames == {"a", "b"}

DedupLists(name) ==
  UNION { { [k \in 1..len |-> Finding(ids[k], name, k)] : ids \in [1..len -> DedupIds] }
          : len \in 0..MaxDedupVulns }

\* Every vulnsByPackage map over DedupNames, in either insertion order.
DedupInputs ==
  { <<>> }
  \cup { << [name |-> n, vulns |-> l] >> : n \in DedupNames, l \in UNION { DedupLists(x) : x \in DedupNames } }
  \cup { << [name |-> n, vulns |-> l], [name |-> m, vulns |-> r] >> :
            n \in DedupNames, m \in DedupNames,
            l \in UNION { DedupLists(x) : x \in DedupNames },
            r \in UNION { DedupLists(x) : x \in DedupNames } }

\* A well-formed input: distinct keys, each list holding its own package's findings.
WellFormedDedupInput(m) ==
  /\ \A k \in 1..Len(m) : m[k].vulns \in DedupLists(m[k].name)
  /\ \A j, k \in 1..Len(m) : j # k => m[j].name # m[k].name

InitDedup ==
  /\ concurrency = 1
  /\ vulnCache = [n \in Names |-> NoEntry]
  /\ fetchCount = [n \in Names |-> 0]
  /\ task = <<>>
  /\ project = NoProject
  /\ world = OsvOnlyWorld(0)
  /\ \E m \in DedupInputs :
       /\ WellFormedDedupInput(m)
       /\ pure = [fn |-> "deduplicateVulnerabilities", done |-> FALSE,
                  input |-> m, output |-> <<>>]

\* The caller applies deduplicateVulnerabilities to the map.
Deduplicate ==
  /\ pure.fn = "deduplicateVulnerabilities"
  /\ ~pure.done
  /\ pure' = [pure EXCEPT !.done = TRUE,
                          !.output = deduplicateVulnerabilities(pure.input)]
  /\ UNCHANGED <<concurrency, vulnCache, fetchCount, task, project, world>>

NextDedup == Deduplicate

SpecDedup == InitDedup /\ [][NextDedup]_vars

\* ------------------------------------------------ version strings (semver)
\* A string that semver accepts as a version: major.minor.patch, an optional
\* prerelease tag ("" none, "rc", or the "0" of a desugared upper bound) and
\* an optional leading "v".
Version(maj, min, pat, pre, v) ==
  [kind |-> "version", maj |-> maj, min |-> min, pat |-> pat, pre |-> pre, v |-> v]

\* A string that is neither a version nor a range ("latest", a URL).
Junk == [kind |-> "junk", maj |-> 0, min |-> 0, pat |-> 0, pre |-> "", v |-> FALSE]

\* null / undefined, and the empty string.
Null == [kind |-> "null", maj |-> 0, min |-> 0, pat |-> 0, pre |-> "", v |-> FALSE]

EmptyString == [kind |-> "empty", maj |-> 0, min |-> 0, pat |-> 0, pre |-> "", v |-> FALSE]

\* !value for a string or null.
Falsy(s) == s.kind \in {"null", "empty"}

\* semver.valid(s) is not null.
Valid(s) == s.kind = "version"

\* One comparator of a range: an operator and the version it compares with.
Comparator(op, maj, min, pat, pre) ==
  [op |-> op, maj |-> maj, min |-> min, pat |-> pat, pre |-> pre]

\* A range string: whitespace-joined parts, each an operator (^ ~ >= > < <= =)
\* followed by a version; no part at all is "*".
Range(parts) == [kind |-> "range", parts |-> parts]

\* A prerelease sorts before its release, and "0" before any other tag.
PreRank(pre) == IF pre = "" THEN 2 ELSE IF pre = "0" THEN 0 ELSE 1

\* SemVer.compare with the result negated: the lower version wins.
CompareReversed(a, b) ==
  IF a.maj # b.maj THEN (IF a.maj < b.maj THEN 1 ELSE -1)
  ELSE IF a.min # b.min THEN (IF a.min < b.min THEN 1 ELSE -1)
  ELSE IF a.pat # b.pat THEN (IF a.pat < b.pat THEN 1 ELSE -1)
  ELSE IF PreRank(a.pre) # PreRank(b.pre)
       THEN (IF PreRank(a.pre) < PreRank(b.pre) THEN 1 ELSE -1)
  ELSE 0

\* SemVer.compare(a, b): -1, 0 or 1; the "v" prefix does not count.
Compare(a, b) ==
  IF a.maj # b.maj THEN (IF a.maj < b.maj THEN -1 ELSE 1)
  ELSE IF a.min # b.min THEN (IF a.min < b.min THEN -1 ELSE 1)
  ELSE IF a.pat # b.pat THEN (IF a.pat < b.pat THEN -1 ELSE 1)
  ELSE IF PreRank(a.pre) # PreRank(b.pre)
       THEN (IF PreRank(a.pre) < PreRank(b.pre) THEN -1 ELSE 1)
  ELSE 0

\* The comparators a part stands for: ^ and ~ become a lower and an upper bound.
Desugar(part) ==
  IF part.op = "^"
  THEN << Comparator(">=", part.maj, part.min, part.pat, part.pre),
          IF part.maj > 0 THEN Comparator("<", part.maj + 1, 0, 0, "0")
          ELSE IF part.min > 0 THEN Comparator("<", 0, part.min + 1, 0, "0")
          ELSE Comparator("<", 0, 0, part.pat + 1, "0") >>
  ELSE IF part.op = "~"
  THEN << Comparator(">=", part.maj, part.min, part.pat, part.pre),
          Comparator("<", part.maj, part.min + 1, 0, "0") >>
  ELSE << part >>

RECURSIVE DesugarAll(_, _)
DesugarAll(parts, k) ==
  IF k > Len(parts) THEN <<>> ELSE Desugar(parts[k]) \o DesugarAll(parts, k + 1)

\* The comparator set of a range string; a plain version means "= version".
ComparatorsOf(range) ==
  IF range.kind = "version"
  THEN << Comparator("=", range.maj, range.min, range.pat, range.pre) >>
  ELSE DesugarAll(range.parts, 1)

\* Comparator.test(version).
TestComparator(c, ver) ==
  LET r == Compare(ver, c)
  IN IF c.op = ">=" THEN r >= 0
     ELSE IF c.op = ">" THEN r > 0
     ELSE IF c.op = "<" THEN r < 0
     ELSE IF c.op = "<=" THEN r <= 0
     ELSE r = 0

\* Range.test(version): every comparator passes, and a prerelease version is
\* admitted only by a comparator with a prerelease on the same
\* major.minor.patch.
Satisfies(ver, range) ==
  LET set == ComparatorsOf(range)
  IN /\ \A k \in 1..Len(set) : TestComparator(set[k], ver)
     /\ ver.pre # "" =>
          \E k \in 1..Len(set) :
            /\ set[k].pre # ""
            /\ set[k].maj = ver.maj /\ set[k].min = ver.min /\ set[k].pat = ver.pat

\* semver.maxSatisfying(versions, range): null for a string that is no range.
RECURSIVE MaxSatisfyingFrom(_, _, _, _)
MaxSatisfyingFrom(versions, k, range, max) ==
  IF k > Len(versions) THEN max
  ELSE LET ver == versions[k]
       IN MaxSatisfyingFrom(versions, k + 1, range,
            IF Valid(ver) /\ Satisfies(ver, range) /\ (max = Null \/ Compare(max, ver) = -1)
            THEN ver ELSE max)

maxSatisfying(versions, range) ==
  IF range.kind \notin {"range", "version"} THEN Null
  ELSE MaxSatisfyingFrom(versions, 1, range, Null)

\* Array.prototype.includes on strings.
Includes(list, s) == \E k \in 1..Len(list) : list[k] = s

\* An array argument that may be null or undefined.
NoArray == [present |-> FALSE, list |-> <<>>]

Array(list) == [present |-> TRUE, list |-> list]

\* resolveVersion without the exact-version branch.
resolveVersionNoExact(range, availableVersions) ==
  IF Falsy(range) \/ ~availableVersions.present \/ Len(availableVersions.list) = 0
  THEN Null
  ELSE maxSatisfying(SelectSeq(availableVersions.list, Valid), range)

\* resolveVersion(range, availableVersions).
resolveVersion(range, availableVersions) ==
  IF Falsy(range) \/ ~availableVersions.present \/ Len(availableVersions.list) = 0
  THEN Null
  ELSE IF Valid(range)
  THEN (IF Includes(availableVersions.list, range) THEN range ELSE Null)
  ELSE maxSatisfying(SelectSeq(availableVersions.list, Valid), range)

\* ------------------------------------------------------- resolveVersion
\* Longest list of published versions explored.
MaxVersionList == 2

VersionTuples == (0..2) \X (0..1) \X (0..1)

Releases == { Version(t[1], t[2], t[3], "", FALSE) : t \in VersionTuples }

\* The version strings a published list may hold.
ListedVersions ==
  Releases
  \cup { Version(1, 0, 0, "rc", FALSE), Version(2, 0, 0, "rc", FALSE),
         Version(1, 0, 0, "", TRUE), Junk }

VersionLists == UNION { [1..len -> ListedVersions] : len \in 0..MaxVersionList }

Operators == {"^", "~", ">=", ">", "<", "<=", "="}

\* The constraints explored: absent, empty, junk, "*", a concrete version,
\* one operator with a version, and ">=a <b".
Constraints ==
  { Null, EmptyString, Junk, Range(<<>>) }
  \cup (ListedVersions \ { Junk })
  \cup { Range(<< Comparator(op, t[1], t[2], t[3], "") >>) : op \in Operators, t \in VersionTuples }
  \cup { Range(<< Comparator(op, 1, 0, 0, "rc") >>) : op \in Operators }
  \cup { Range(<< Comparator(">=", a[1], a[2], a[3], ""), Comparator("<", b[1], b[2], b[3], "") >>) :
           a \in VersionTuples, b \in { <<1, 0, 0>>, <<2, 0, 0>>, <<2, 1, 1>> } }

\* The cases of the repository's test suite for resolveVersion.
TestVersions ==
  << Version(1, 0, 0, "", FALSE), Version(1, 2, 0, "", FALSE), Version(1, 2, 5, "", FALSE),
     Version(2, 0, 0, "", FALSE), Version(2, 1, 0, "", FALSE), Version(3, 0, 0, "", FALSE),
     Version(4, 17, 21, "", FALSE), Version(4, 18, 0, "", FALSE), Version(4, 18, 2, "", FALSE) >>

ResolveTests ==
  { [range |-> Version(2, 1, 0, "", FALSE), versions |-> Array(TestVersions),
     expected |-> Version(2, 1, 0, "", FALSE)],
    [range |-> Version(5, 0, 0, "", FALSE), versions |-> Array(TestVersions), expected |-> Null],
    [range |-> Range(<< Comparator("^", 4, 18, 0, "") >>), versions |-> Array(TestVersions),
     expected |-> Version(4, 18, 2, "", FALSE)],
    [range |-> Range(<< Comparator("~", 1, 2, 0, "") >>), versions |-> Array(TestVersions),
     expected |-> Version(1, 2, 5, "", FALSE)],
    [range |-> Range(<< Comparator(">=", 2, 0, 0, "") >>), versions |-> Array(TestVersions),
     expected |-> Version(4, 18, 2, "", FALSE)],
    [range |-> Range(<< Comparator("^", 1, 0, 0, "") >>), versions |-> Array(<<>>),
     expected |-> Null],
    [range |-> Null, versions |-> Array(TestVersions), expected |-> Null],
    [range |-> Range(<< Comparator(">=", 1, 0, 0, ""), Comparator("<", 3, 0, 0, "") >>),
     versions |-> Array(TestVersions), expected |-> Version(2, 1, 0, "", FALSE)],
    [range |-> Range(<< Comparator("^", 10, 0, 0, "") >>), versions |-> Array(TestVersions),
     expected |-> Null] }

ResolveInputs ==
  { [range |-> r, versions |-> a] :
      r \in Constraints, a \in { NoArray } \cup { Array(l) : l \in VersionLists } }
  \cup { [range |-> tc.range, versions |-> tc.versions] : tc \in ResolveTests }

InitResolve ==
  /\ concurrency = 1
  /\ vulnCache = [n \in Names |-> NoEntry]
  /\ fetchCount = [n \in Names |-> 0]
  /\ task = <<>>
  /\ project = NoProject
  /\ world = OsvOnlyWorld(0)
  /\ \E in \in ResolveInputs :
       pure = [fn |-> "resolveVersion", done |-> FALSE,
               range |-> in.range, versions |-> in.versions, output |-> Null]

\* The caller applies resolveVersion.
Resolve ==
  /\ pure.fn = "resolveVersion"
  /\ ~pure.done
  /\ pure' = [pure EXCEPT !.done = TRUE,
                          !.output = resolveVersion(pure.range, pure.versions)]
  /\ UNCHANGED <<concurrency, vulnCache, fetchCount, task, project, world>>

NextResolve == Resolve

SpecResolve == InitResolve /\ [][NextResolve]_vars

\* --------------------------------------------- deps.dev client (depsDev.js)
\* One entry of packageInfo.versions: versionKey.version (null when the key
\* is missing) and publishedAt as a day number (0 when it is missing, which
\* is what new Date(publishedAt || 0) makes of it).
VersionEntry(version, publishedAt) == [version |-> version, publishedAt |-> publishedAt]

\* One HTTP exchange as the client sees it: fetch resolves or rejects, the
\* response has a status, and response.json() resolves or rejects.
Response(fetch, status, json) == [fetch |-> fetch, status |-> status, json |-> json]

\* response.ok
ResponseOk(response) == response.status >= 200 /\ response.status <= 299

\* The try block shared by getPackageInfo, getVersionInfo and
\* getDependencyGraph: "value" (the parsed body), "null", or "throw".
ClientTry(response) ==
  IF response.fetch = "rejects" THEN "throw"
  ELSE IF ~ResponseOk(response)
  THEN (IF response.status = 404 THEN "null" ELSE "throw")
  ELSE IF response.json = "rejects" THEN "throw"
  ELSE "value"

\* The same functions without their catch block.
ClientNoCatch(r) == r

\* The catch block: log and return null.
ClientCatch(r) == IF r = "throw" THEN "null" ELSE r

\* What the caller of one of the three functions gets.
ClientCall(response) == ClientCatch(ClientTry(response))

\* The exchange behind an outcome of the analysis: a 200 with a body, a 404,
\* or a failed request.
ResponseOf(outcome) ==
  IF outcome.kind = "ok" THEN Response("resolves", 200, "resolves")
  ELSE IF outcome.kind = "notfound" THEN Response("resolves", 404, "resolves")
  ELSE Response("rejects", 0, "rejects")

\* What GET /packages/{name} can come back with: the package's data, with or
\* without a versions list, a 404, or a fault.
PackageInfoOutcomes(name) ==
  { [kind |-> "ok", hasVersions |-> h, versions |-> IF h THEN world.versions[name] ELSE <<>>] :
      h \in BOOLEAN }
  \cup { [kind |-> "notfound", hasVersions |-> FALSE, versions |-> <<>>] }
  \cup { [kind |-> k, hasVersions |-> FALSE, versions |-> <<>>] :
           k \in IF world.faults > 0 THEN {"error"} ELSE {} }

\* getPackageInfo: the data, or null on a 404 and on any failure.
getPackageInfo(outcome) ==
  IF ClientCall(ResponseOf(outcome)) = "value"
  THEN [found |-> TRUE, hasVersions |-> outcome.hasVersions, versions |-> outcome.versions]
  ELSE NoPackageInfo

\* A node of a dependency graph; relation "" when the node carries none.
Node(name, version, relation) ==
  [hasKey |-> TRUE, name |-> name, version |-> version, relation |-> relation]

KeylessNode == [hasKey |-> FALSE, name |-> "", version |-> Null, relation |-> "DIRECT"]

Graph(nodes) == [found |-> TRUE, hasNodes |-> TRUE, nodes |-> nodes]

\* What GET .../versions/{version}:dependencies can come back with.
GraphOutcomes(name) ==
  { [kind |-> "ok", graph |-> g] : g \in world.graphs[name] }
  \cup { [kind |-> "notfound", graph |-> NoGraph] }
  \cup { [kind |-> k, graph |-> NoGraph] : k \in IF world.faults > 0 THEN {"error"} ELSE {} }

\* getDependencyGraph: the graph, or null on a 404 and on any failure.
getDependencyGraph(outcome) ==
  IF ClientCall(ResponseOf(outcome)) = "value" THEN outcome.graph ELSE NoGraph

\* extractPackagesFromGraph: the loop over the nodes (lines 236-250).
RECURSIVE ExtractFrom(_, _, _)
ExtractFrom(nodes, k, packages) ==
  IF k > Len(nodes) THEN packages
  ELSE LET node == nodes[k]
       IN IF ~node.hasKey THEN ExtractFrom(nodes, k + 1, packages)
          ELSE IF \E q \in 1..Len(packages) :
                    packages[q].name = node.name /\ packages[q].version = node.version
          THEN ExtractFrom(nodes, k + 1, packages)
          ELSE ExtractFrom(nodes, k + 1,
                 Append(packages,
                        [name |-> node.name, version |-> node.version,
                         relation |-> IF node.relation = "" THEN "UNKNOWN" ELSE node.relation]))

extractPackagesFromGraph(graph) ==
  IF ~graph.found \/ ~graph.hasNodes THEN <<>> ELSE ExtractFrom(graph.nodes, 1, <<>>)

\* ------------------------------------ getTransitiveCVEMetrics (analyzer.js)
\* How many recent versions the fallback search looks at.
FallbackLimit == 10

\* Array.prototype.sort with (a, b) => dateB - dateA: newest first, and stable.
InsertByDate(sorted, e) ==
  LET k == Cardinality({ q \in 1..Len(sorted) : sorted[q].publishedAt >= e.publishedAt })
  IN SubSeq(sorted, 1, k) \o << e >> \o SubSeq(sorted, k + 1, Len(sorted))

RECURSIVE SortFrom(_, _, _)
SortFrom(versions, k, sorted) ==
  IF k > Len(versions) THEN sorted
  ELSE SortFrom(versions, k + 1, InsertByDate(sorted, versions[k]))

SortByDateDesc(versions) == SortFrom(versions, 1, <<>>)

\* packageInfo.versions.map((v) => v.versionKey?.version).filter(Boolean)
RECURSIVE AvailableFrom(_, _)
AvailableFrom(versions, k) ==
  IF k > Len(versions) THEN <<>>
  ELSE (IF Falsy(versions[k].version) THEN <<>> ELSE << versions[k].version >>)
       \o AvailableFrom(versions, k + 1)

\* Step 1 (lines 95-113): the concrete version, or null.
ResolveStep(packageInfo, versionRange) ==
  IF packageInfo.found /\ packageInfo.hasVersions
  THEN IF Falsy(versionRange)
       THEN LET sorted == SortByDateDesc(packageInfo.versions)
            IN IF Len(sorted) = 0 THEN Null ELSE sorted[1].version
       ELSE resolveVersion(versionRange, Array(AvailableFrom(packageInfo.versions, 1)))
  ELSE Null

\* The one-package tree with the root marked as a direct dependency.
RootAsDirect(name, version) == << [name |-> name, version |-> version, relation |-> "DIRECT"] >>

\* The tree before any graph is known (lines 121-123).
RootOnly(name, version) == << [name |-> name, version |-> version, relation |-> "SELF"] >>

\* The fallback loop without the `!== resolvedVersion` test.
NextFallbackRetry(tk, sorted, from) ==
  LET candidates == { i \in from..(Min(FallbackLimit, Len(sorted)) - 1) :
                        ~Falsy(sorted[i + 1].version) }
  IN IF candidates = {} THEN -1
     ELSE CHOOSE i \in candidates : \A o \in candidates : i <= o

\* The fallback loop (lines 142-154) from index `from` (0-based): the next
\* index whose version is requested, or -1 when the loop runs out.
NextFallback(tk, sorted, from) ==
  LET candidates == { i \in from..(Min(FallbackLimit, Len(sorted)) - 1) :
                        /\ ~Falsy(sorted[i + 1].version)
                        /\ sorted[i + 1].version # tk.resolvedVersion }
  IN IF candidates = {} THEN -1
     ELSE CHOOSE i \in candidates : \A o \in candidates : i <= o

\* One entry of the history of dependency-graph requests of a call.
GraphRequest(entry, index) ==
  [version |-> entry.version, publishedAt |-> entry.publishedAt, index |-> index,
   state |-> "pending"]

\* Step 3 (lines 171-175): the unique names of the tree go to
\* queryVulnerabilitiesBatch with the shared cache.
StartVulnQuery(tk, cache) ==
  LET names == FirstOccurrences([k \in 1..Len(tk.treePackages) |-> tk.treePackages[k].name],
                                1, <<>>)
  IN LoopHead(EnterBatch(tk, names, cache), concurrency)

\* Lines 157-163: the graph, if any, replaces the one-package tree.
AfterGraph(tk, graph, cache) ==
  StartVulnQuery([tk EXCEPT !.gotGraph = graph.found,
                            !.treePackages = IF graph.found
                                             THEN extractPackagesFromGraph(graph)
                                             ELSE @], cache)

\* Lines 129-155 after a failed request: ask for the next fallback version,
\* or give up and go on with the one-package tree.
TryFallback(tk, from, cache) ==
  LET sorted == SortByDateDesc(tk.packageInfo.versions)
      i == NextFallback(tk, sorted, from)
  IN IF tk.packageInfo.found /\ tk.packageInfo.hasVersions /\ i >= 0
     THEN [tk EXCEPT !.pc = "awaitFallback",
                     !.fallbackIndex = i,
                     !.graphLog = Append(@, GraphRequest(sorted[i + 1], i))]
     ELSE AfterGraph(tk, NoGraph, cache)

\* Marks the last graph request of the history as answered.
Answered(log, ok) ==
  [log EXCEPT ![Len(log)].state = IF ok THEN "ok" ELSE "failed"]

\* getTransitiveCVEMetrics is called (shallow = false): getPackageInfo is
\* requested.
EnterTransitive(tk) == [tk EXCEPT !.pc = "awaitPackageInfo"]

CallTransitive(t) ==
  /\ task[t].kind = "transitive"
  /\ task[t].pc = "ready"
  /\ task' = [task EXCEPT ![t] = EnterTransitive(task[t])]
  /\ UNCHANGED <<concurrency, vulnCache, fetchCount, project, pure, world>>

\* The package-info response arrives: resolve the version (step 1), then
\* request the graph of the resolved version or, without one, query the
\* root package alone.
PackageInfoResponse(t) ==
  /\ task[t].pc = "awaitPackageInfo"
  /\ \E outcome \in PackageInfoOutcomes(task[t].packageName) :
       LET info == getPackageInfo(outcome)
           resolved == ResolveStep(info, task[t].versionRange)
           tk == [task[t] EXCEPT !.packageInfo = info,
                                 !.resolvedVersion = resolved,
                                 !.originalVersion = resolved,
                                 !.treePackages = RootOnly(task[t].packageName, resolved)]
           next == IF ~Falsy(resolved)
                   THEN [tk EXCEPT !.pc = "awaitGraph",
                                   !.graphLog = << GraphRequest(VersionEntry(resolved, 0), -1) >>]
                   ELSE StartVulnQuery(tk, vulnCache)
       IN /\ task' = [task EXCEPT ![t] = next]
          /\ fetchCount' = [n \in Names |-> fetchCount[n] + Issued(task[t], next, n)]
          /\ world' = AfterOutcome(outcome.kind = "error")
  /\ UNCHANGED <<concurrency, vulnCache, project, pure>>

\* The response for the graph of the resolved version arrives.
GraphResponse(t) ==
  /\ task[t].pc = "awaitGraph"
  /\ \E outcome \in GraphOutcomes(task[t].packageName) :
       LET graph == getDependencyGraph(outcome)
           tk == [task[t] EXCEPT !.graphLog = Answered(@, graph.found)]
           next == IF graph.found THEN AfterGraph(tk, graph, vulnCache)
                   ELSE TryFallback(tk, 0, vulnCache)
       IN /\ task' = [task EXCEPT ![t] = next]
          /\ fetchCount' = [n \in Names |-> fetchCount[n] + Issued(task[t], next, n)]
          /\ world' = AfterOutcome(outcome.kind = "error")
  /\ UNCHANGED <<concurrency, vulnCache, project, pure>>

\* The response for the graph of a fallback version arrives.
FallbackResponse(t) ==
  /\ task[t].pc = "awaitFallback"
  /\ \E outcome \in GraphOutcomes(task[t].packageName) :
       LET graph == getDependencyGraph(outcome)
           tk == [task[t] EXCEPT !.graphLog = Answered(@, graph.found)]
           next == IF graph.found
                   THEN AfterGraph([tk EXCEPT !.resolvedVersion =
                                      tk.graphLog[Len(tk.graphLog)].version],
                                   graph, vulnCache)
                   ELSE TryFallback(tk, tk.fallbackIndex + 1, vulnCache)
       IN /\ task' = [task EXCEPT ![t] = next]
          /\ fetchCount' = [n \in Names |-> fetchCount[n] + Issued(task[t], next, n)]
          /\ world' = AfterOutcome(outcome.kind = "error")
  /\ UNCHANGED <<concurrency, vulnCache, project, pure>>

\* ---------------------------------------------- one getTransitiveCVEMetrics
\* Longest version history of the analysed package.
MaxHistory == 11

\* Most network faults (non-2xx other than 404, transport errors) in a run.
MaxFaults == 1

\* The version histories explored for a package with n versions 1.0.0 ..
\* n.0.0, listed in that order: published in list order, in reverse order,
\* scrambled, in pairs on the same day, with the first one undated, and with
\* the second one lacking its versionKey.
Histories(n) ==
  { [k \in 1..n |-> VersionEntry(Version(k, 0, 0, "", FALSE), k)],
    [k \in 1..n |-> VersionEntry(Version(k, 0, 0, "", FALSE), n + 1 - k)],
    [k \in 1..n |-> VersionEntry(Version(k, 0, 0, "", FALSE), 1 + ((k * 5) % 13))],
    [k \in 1..n |-> VersionEntry(Version(k, 0, 0, "", FALSE), (k + 1) \div 2)],
    [k \in 1..n |-> VersionEntry(Version(k, 0, 0, "", FALSE), IF k = 1 THEN 0 ELSE k)],
    [k \in 1..n |-> VersionEntry(IF k = 2 THEN Null ELSE Version(k, 0, 0, "", FALSE), k)] }

\* The constraints explored for such a package: none, a listed or unlisted
\* concrete version, the highest version, the 1.x line, junk.
TransitiveRanges(n) ==
  { Null, Junk, Range(<<>>), Range(<< Comparator("^", 1, 0, 0, "") >>) }
  \cup { Version(k, 0, 0, "", FALSE) : k \in 1..(n + 1) }

\* The graphs deps.dev may serve for the root package "a".
RootGraphs ==
  { Graph(<< Node("a", Version(1, 0, 0, "", FALSE), "SELF"),
             Node("b", Version(1, 0, 0, "", FALSE), "DIRECT"),
             KeylessNode,
             Node("c", Version(1, 0, 0, "", FALSE), "INDIRECT"),
             Node("c", Version(2, 0, 0, "", FALSE), ""),
             Node("b", Version(1, 0, 0, "", FALSE), "INDIRECT") >>),
    [found |-> TRUE, hasNodes |-> FALSE, nodes |-> <<>>] }

\* OSV holds one advisory that all packages share, and nothing for "c".
SharedAdvisory ==
  [n \in Names |-> IF n = "c" THEN { <<>> } ELSE { << Finding("CVE-1", n, 1) >> }]

InitTransitive ==
  /\ concurrency = MaxConcurrency
  /\ vulnCache \in { [n \in Names |-> NoEntry],
                     [n \in Names |-> IF n = "a" THEN [has |-> TRUE, vulns |-> <<>>] ELSE NoEntry] }
  /\ fetchCount = [n \in Names |-> 0]
  /\ project = NoProject
  /\ pure = NoPure
  /\ \E n \in 0..MaxHistory :
       \E history \in Histories(n), range \in TransitiveRanges(n) :
         /\ task = [t \in {1} |-> NewTask("transitive", "a", range, <<>>)]
         /\ world = [osv |-> SharedAdvisory,
                     versions |-> [p \in Names |-> IF p = "a" THEN history ELSE <<>>],
                     graphs |-> [p \in Names |-> IF p = "a" THEN RootGraphs ELSE {}],
                     faults |-> MaxFaults]

NextTransitive ==
  \/ \E t \in DOMAIN task : CallTransitive(t)
  \/ \E t \in DOMAIN task : PackageInfoResponse(t)
  \/ \E t \in DOMAIN task : GraphResponse(t)
  \/ \E t \in DOMAIN task : FallbackResponse(t)
  \/ \E t \in DOMAIN task : \E j \in 1..Len(task[t].answers) : QueryResponse(t, j)
  \/ \E t \in DOMAIN task : BatchSettled(t)

SpecTransitive == InitTransitive /\ [][NextTransitive]_vars

\* ------------------------------------------- analyzePackage (analyzer.js)
\* What GET /packages/{name}/versions/{version} can come back with.
VersionInfoOutcomes(name) ==
  { [kind |-> "ok", hasDependencies |-> TRUE, dependencies |-> 2],
    [kind |-> "notfound", hasDependencies |-> FALSE, dependencies |-> 0] }
  \cup { [kind |-> k, hasDependencies |-> FALSE, dependencies |-> 0] :
           k \in IF world.faults > 0 THEN {"error"} ELSE {} }

\* null for a version-info response.
NoVersionInfo == [found |-> FALSE, hasDependencies |-> FALSE, dependencies |-> 0]

\* getVersionInfo: the data (here: how many dependencies the release
\* declares, if it lists any), or null on a 404 and on any failure.
getVersionInfo(outcome) ==
  IF ClientCall(ResponseOf(outcome)) = "value"
  THEN [found |-> TRUE, hasDependencies |-> outcome.hasDependencies,
        dependencies |-> outcome.dependencies]
  ELSE NoVersionInfo

\* analyzePackage returns: found as getPackageMetrics reports it, or the
\* error object of its catch block.
Analysed(tk, found) == [tk EXCEPT !.pc = "done", !.result = [found |-> found, error |-> FALSE]]

\* analyzePackage without its catch block: the error escapes to the caller.
AnalysisRethrown(tk) == [tk EXCEPT !.pc = "rejected", !.result = [found |-> FALSE, error |-> TRUE]]

\* The catch block of analyzePackage (lines 247-255).
AnalysisFailed(tk) == [tk EXCEPT !.pc = "done", !.result = [found |-> FALSE, error |-> TRUE]]

\* getPackageMetrics lines 262-286, from the package-info response to the
\* getVersionInfo request (or to the return without one).
MetricsStep(tk, info) ==
  IF ~info.found THEN Analysed(tk, FALSE)
  ELSE IF ~Falsy(tk.versionRange)
  THEN [tk EXCEPT !.pc = "awaitVersionInfo", !.versionInfoFor = tk.versionRange]
  ELSE IF info.hasVersions /\ Len(info.versions) > 0
  THEN LET latest == SortByDateDesc(info.versions)[1]
       IN IF latest.version.kind = "null"
          THEN AnalysisFailed(tk)   \* versionKey.version of undefined
          ELSE [tk EXCEPT !.pc = "awaitVersionInfo", !.versionInfoFor = latest.version]
  ELSE Analysed(tk, TRUE)

\* The package-info response of getPackageMetrics arrives.
MetricsInfoResponse(t) ==
  /\ task[t].pc = "awaitMetricsInfo"
  /\ \E outcome \in PackageInfoOutcomes(task[t].packageName) :
       /\ task' = [task EXCEPT ![t] = MetricsStep(task[t], getPackageInfo(outcome))]
       /\ world' = AfterOutcome(outcome.kind = "error")
  /\ UNCHANGED <<concurrency, vulnCache, fetchCount, project, pure>>

\* The version-info response arrives; getVersionInfo turns a 404 and any
\* failure into null, and analyzePackage returns its result.
VersionInfoResponse(t) ==
  /\ task[t].pc = "awaitVersionInfo"
  /\ \E outcome \in VersionInfoOutcomes(task[t].packageName) :
       /\ task' = [task EXCEPT ![t] = Analysed(task[t], TRUE)]
       /\ world' = AfterOutcome(outcome.kind = "error")
  /\ UNCHANGED <<concurrency, vulnCache, fetchCount, project, pure>>

\* ------------------------------------------- analyzeProject (analyzer.js)
\* One entry of the packages list of the project result.
PackageResult(tk) ==
  [packageName |-> tk.packageName, found |-> tk.result.found, error |-> tk.result.error,
   totalPackagesInTree |-> tk.ret.totalPackagesInTree,
   directCount |-> tk.ret.directPackageCount,
   indirectCount |-> tk.ret.transitivePackageCount]

\* dependencies.slice(i, i + maxConcurrent), as positions.
ProjectBatch(pr, n) == { k \in 1..Len(pr.dependencies) : pr.i < k /\ k <= pr.i + n }

\* Lines 293-302: the loop test and, if it passes, the start of one
\* analyzePackage per dependency of the batch, each running up to its first
\* request.
ProjectLoopHead(pr, tasks, n) ==
  IF pr.i < Len(pr.dependencies)
  THEN [project |-> [pr EXCEPT !.pc = "awaitPackages"],
        task |-> [t \in DOMAIN tasks |->
                    IF t \in ProjectBatch(pr, n) THEN EnterTransitive(tasks[t]) ELSE tasks[t]]]
  ELSE [project |-> [pr EXCEPT !.pc = "returned"], task |-> tasks]

\* analyzeProject is called: the dependencies are read, the shared cache is
\* created and the first batch starts.
StartProject ==
  /\ project.pc = "ready"
  /\ LET next == ProjectLoopHead(project, task, concurrency)
     IN /\ project' = next.project
        /\ task' = next.task
  /\ UNCHANGED <<concurrency, vulnCache, fetchCount, pure, world>>

\* Promise.all over the batch settles: collect the results and loop.
ProjectBatchSettled ==
  /\ project.pc = "awaitPackages"
  /\ \A t \in ProjectBatch(project, concurrency) : task[t].pc = "done"
  /\ LET batch == ProjectBatch(project, concurrency)
         collected == [k \in 1..Cardinality(batch) |-> PackageResult(task[project.i + k])]
         next == ProjectLoopHead([project EXCEPT !.packages = @ \o collected,
                                                 !.i = @ + concurrency],
                                 task, concurrency)
     IN /\ project' = next.project
        /\ task' = next.task
  /\ UNCHANGED <<concurrency, vulnCache, fetchCount, pure, world>>

\* ------------------------------------------------------ one analyzeProject
\* Most dependencies of the analysed project.
MaxDeps == 2

\* Every package has the version 1.0.0; c also has a later 1.1.0, and the
\* latest entry of b lacks its versionKey.
RegistryVersions ==
  [p \in Names |->
     << VersionEntry(Version(1, 0, 0, "", FALSE), 1) >>
     \o (IF p = "c" THEN << VersionEntry(Version(1, 1, 0, "", FALSE), 2) >>
         ELSE IF p = "b" THEN << VersionEntry(Null, 2) >>
         ELSE <<>>)]

\* The constraints a package.json declares for a dependency: ^1.0.0, and for
\* b also the empty string.
DeclaredVersions(name) ==
  { Range(<< Comparator("^", 1, 0, 0, "") >>) } \cup (IF name = "b" THEN { EmptyString } ELSE {})

\* The registry the project is analysed against: a depends on b and c, b
\* depends on c, c on nothing (at either version).
ProjectGraphs ==
  [p \in Names |->
     IF p = "a" THEN { Graph(<< Node("a", Version(1, 0, 0, "", FALSE), "SELF"),
                                Node("b", Version(1, 0, 0, "", FALSE), "DIRECT"),
                                Node("c", Version(1, 0, 0, "", FALSE), "INDIRECT") >>) }
     ELSE IF p = "b" THEN { Graph(<< Node("b", Version(1, 0, 0, "", FALSE), "SELF"),
                                     Node("c", Version(1, 0, 0, "", FALSE), "DIRECT") >>) }
     ELSE { Graph(<< Node("c", Version(1, 0, 0, "", FALSE), "SELF") >>) }]

\* The dependency lists of a package.json: distinct names (they are the keys
\* of an object), each with the constraint ^1.0.0.
DependencyLists ==
  { d \in UNION { [1..len -> Names] : len \in 0..MaxDeps } :
      \A j, k \in 1..Len(d) : j # k => d[j] # d[k] }

\* A project run: batches of one or two analyses at a time, and at most one
\* request that fails.
InitProject ==
  /\ concurrency \in 1..Min(MaxConcurrency, 2)
  /\ vulnCache = [n \in Names |-> NoEntry]
  /\ fetchCount = [n \in Names |-> 0]
  /\ pure = NoPure
  /\ world = [osv |-> SharedAdvisory,
              versions |-> RegistryVersions,
              graphs |-> ProjectGraphs,
              faults |-> Min(MaxFaults, 1)]
  /\ \E d \in DependencyLists :
       \E v \in [1..Len(d) -> UNION { DeclaredVersions(n) : n \in Names }] :
         /\ \A k \in 1..Len(d) : v[k] \in DeclaredVersions(d[k])
         /\ project = [pc |-> "ready",
                       dependencies |-> [k \in 1..Len(d) |-> [name |-> d[k], version |-> v[k]]],
                       i |-> 0, packages |-> <<>>]
         /\ task = [t \in 1..Len(d) |-> NewTask("package", d[t], v[t], <<>>)]

NextProject ==
  \/ StartProject
  \/ \E t \in DOMAIN task : PackageInfoResponse(t)
  \/ \E t \in DOMAIN task : GraphResponse(t)
  \/ \E t \in DOMAIN task : FallbackResponse(t)
  \/ \E t \in DOMAIN task : \E j \in 1..Len(task[t].answers) : QueryResponse(t, j)
  \/ \E t \in DOMAIN task : BatchSettled(t)
  \/ \E t \in DOMAIN task : MetricsInfoResponse(t)
  \/ \E t \in DOMAIN task : VersionInfoResponse(t)
  \/ ProjectBatchSettled

SpecProject == InitProject /\ [][NextProject]_vars

\* ------------------------------------------------- one deps.dev request
\* The status codes explored: success, 404, and other non-2xx codes.
Statuses == {200, 201, 301, 404, 429, 500}

Responses ==
  { Response(f, st, j) : f \in {"resolves", "rejects"}, st \in Statuses,
                         j \in {"resolves", "rejects"} }

ClientFunctions == {"getPackageInfo", "getVersionInfo", "getDependencyGraph"}

InitClient ==
  /\ concurrency = 1
  /\ vulnCache = [n \in Names |-> NoEntry]
  /\ fetchCount = [n \in Names |-> 0]
  /\ task = <<>>
  /\ project = NoProject
  /\ world = OsvOnlyWorld(0)
  /\ \E f \in ClientFunctions, n \in Names, r \in Responses :
       pure = [fn |-> f, done |-> FALSE, name |-> n, response |-> r,
               output |-> [threw |-> FALSE, null |-> FALSE]]

\* The caller awaits one of the three functions.
Request ==
  /\ pure.fn \in ClientFunctions
  /\ ~pure.done
  /\ pure' = [pure EXCEPT !.done = TRUE,
                          !.output = [threw |-> ClientCall(pure.response) = "throw",
                                      null |-> ClientCall(pure.response) # "value"]]
  /\ UNCHANGED <<concurrency, vulnCache, fetchCount, task, project, world>>

NextClient == Request

SpecClient == InitClient /\ [][NextClient]_vars

\* --------------------------------------------- scoring (scoring/calculator.js)
\* Fractional numbers are kept in hundredths: 0.5 CVEs per year is 50.
\* The weights of the composite score, in hundredths.
WEIGHTS ==
  [historicalCVEs |-> 50, maintenance |-> 10, complexity |-> 15, technicalLag |-> 15,
   communitySignals |-> 10]

\* Math.round of a number given in hundredths.
Round(hundredths) == (hundredths + 50) \div 100

Max(a, b) == IF a > b THEN a ELSE b

\* Math.max(0, Math.min(100, score))
Clamp(score) == Max(0, Min(100, score))

\* The three band penalties of calculateCVEScore (lines 28-44).
AvgPenalty(avgPerYear) ==
  IF avgPerYear > 1000 THEN 70
  ELSE IF avgPerYear > 500 THEN 50
  ELSE IF avgPerYear > 200 THEN 30
  ELSE IF avgPerYear > 100 THEN 20
  ELSE IF avgPerYear > 50 THEN 10
  ELSE 0

CriticalPenalty(criticalPerYear) ==
  IF criticalPerYear > 200 THEN 20
  ELSE IF criticalPerYear > 100 THEN 15
  ELSE IF criticalPerYear > 50 THEN 10
  ELSE 0

HighPenalty(highPerYear) ==
  IF highPerYear > 300 THEN 15
  ELSE IF highPerYear > 100 THEN 10
  ELSE 0

\* calculateCVEScore without the final clamp.
calculateCVEScoreUnclamped(cveMetrics) ==
  IF cveMetrics.totalCVEs = 0 THEN 100
  ELSE 100 - AvgPenalty(cveMetrics.avgCVEsPerYear)
           - CriticalPenalty(cveMetrics.criticalCVEsPerYear)
           - HighPenalty(cveMetrics.highCVEsPerYear)

calculateCVEScore(cveMetrics) ==
  IF cveMetrics.totalCVEs = 0 THEN 100
  ELSE Clamp(100 - AvgPenalty(cveMetrics.avgCVEsPerYear)
                 - CriticalPenalty(cveMetrics.criticalCVEsPerYear)
                 - HighPenalty(cveMetrics.highCVEsPerYear))

\* calculateTechnicalLagScore; daysSinceLastRelease is null when daysKnown
\* is false, and `null || 0` is 0.
calculateTechnicalLagScore(cveMetrics, maintenanceMetrics) ==
  LET daysSinceRelease == IF maintenanceMetrics.daysKnown
                          THEN maintenanceMetrics.daysSinceLastRelease ELSE 0
      recentCVEs == cveMetrics.bySeverity.CRITICAL + cveMetrics.bySeverity.HIGH
  IN Clamp(100 - (IF daysSinceRelease > 730 THEN 50
                  ELSE IF daysSinceRelease > 365 THEN 30
                  ELSE IF daysSinceRelease > 180 THEN 15
                  ELSE 0)
               - (IF recentCVEs > 5 THEN 40
                  ELSE IF recentCVEs > 2 THEN 25
                  ELSE IF recentCVEs > 0 THEN 15
                  ELSE 0))

\* estimateMaintenanceHours
estimateMaintenanceHours(metrics) ==
  Round(200 + metrics.cve.avgCVEsPerYear * 2
            + metrics.cve.criticalCVEsPerYear * 4
            + metrics.metadata.complexity.directDependencies * 20
            + (IF metrics.metadata.maintenance.releaseFrequency = "abandoned" THEN 1000
               ELSE IF metrics.metadata.maintenance.releaseFrequency = "low" THEN 500
               ELSE 0))

\* getRiskLevel with strict comparisons.
getRiskLevelStrict(score) ==
  IF score > 80 THEN "LOW"
  ELSE IF score > 60 THEN "MEDIUM"
  ELSE IF score > 40 THEN "ELEVATED"
  ELSE IF score > 20 THEN "HIGH"
  ELSE "CRITICAL"

getRiskLevel(score) ==
  IF score >= 80 THEN "LOW"
  ELSE IF score >= 60 THEN "MEDIUM"
  ELSE IF score >= 40 THEN "ELEVATED"
  ELSE IF score >= 20 THEN "HIGH"
  ELSE "CRITICAL"

\* `score || 50`: a sub-score of 0 is falsy.
OrFifty(score) == IF score = 0 THEN 50 ELSE score

calculateCompositeScore(cveMetrics, packageMetrics) ==
  LET cveScore == calculateCVEScore(cveMetrics)
      maintenanceScore == OrFifty(packageMetrics.maintenance.score)
      complexityScore == OrFifty(packageMetrics.complexity.score)
      technicalLagScore == calculateTechnicalLagScore(cveMetrics, packageMetrics.maintenance)
      communityScore == 50
      compositeScore == Round(cveScore * WEIGHTS.historicalCVEs
                              + maintenanceScore * WEIGHTS.maintenance
                              + complexityScore * WEIGHTS.complexity
                              + technicalLagScore * WEIGHTS.technicalLag
                              + communityScore * WEIGHTS.communitySignals)
  IN [totalScore |-> compositeScore,
      riskLevel |-> getRiskLevel(compositeScore),
      estimatedAnnualMaintenanceHours |->
        estimateMaintenanceHours([cve |-> cveMetrics, metadata |-> packageMetrics]),
      breakdown |->
        [historicalCVEs |-> [score |-> cveScore,
                             weightedScore |-> Round(cveScore * WEIGHTS.historicalCVEs)],
         maintenanceHealth |-> [score |-> maintenanceScore,
                                weightedScore |-> Round(maintenanceScore * WEIGHTS.maintenance)],
         dependencyComplexity |-> [score |-> complexityScore,
                                   weightedScore |-> Round(complexityScore * WEIGHTS.complexity)],
         technicalLag |-> [score |-> technicalLagScore,
                           weightedScore |-> Round(technicalLagScore * WEIGHTS.technicalLag)],
         communitySignals |-> [score |-> communityScore,
                               weightedScore |-> Round(communityScore * WEIGHTS.communitySignals)]]]

\* The check command (cli.js) once analyzePackage has returned `result`:
\* the process exit code, 0 when the action runs to its end.
CheckExitCode(result) ==
  IF ~result.found THEN 1
  ELSE IF result.score.riskLevel = "CRITICAL" \/ result.score.riskLevel = "HIGH" THEN 1
  ELSE 0

\* ------------------------------------------------ one calculateCompositeScore
\* The CVE metrics explored: yearly rates on and around every band limit.
ScoredCveMetrics ==
  { [totalCVEs |-> total, avgCVEsPerYear |-> avg, criticalCVEsPerYear |-> crit,
     highCVEsPerYear |-> high,
     bySeverity |-> [CRITICAL |-> sev[1], HIGH |-> sev[2], MODERATE |-> 0, LOW |-> 0,
                     UNKNOWN |-> 0]] :
      total \in {0, 2, 12},
      avg \in {0, 50, 51, 101, 201, 501, 1000, 1001},
      crit \in {0, 50, 51, 101, 201},
      high \in {0, 100, 101, 301},
      sev \in { <<0, 0>>, <<1, 0>>, <<1, 2>>, <<3, 3>> } }

\* The maintenance metrics explored; score 0 is what a package without
\* metadata gets.
ScoredMaintenance ==
  { [score |-> m, daysKnown |-> dk[1], daysSinceLastRelease |-> dk[2],
     releaseFrequency |-> f] :
      m \in {0, 10, 55, 100},
      dk \in { <<FALSE, 0>>, <<TRUE, 181>>, <<TRUE, 731>> },
      f \in {"abandoned", "active"} }

ScoredComplexity ==
  { [score |-> 0, directDependencies |-> 60],
    [score |-> 30, directDependencies |-> 60],
    [score |-> 100, directDependencies |-> 0] }

InitScore ==
  /\ concurrency = 1
  /\ vulnCache = [n \in Names |-> NoEntry]
  /\ fetchCount = [n \in Names |-> 0]
  /\ task = <<>>
  /\ project = NoProject
  /\ world = OsvOnlyWorld(0)
  /\ \E cve \in ScoredCveMetrics, m \in ScoredMaintenance, c \in ScoredComplexity,
        found \in BOOLEAN :
       pure = [fn |-> "calculateCompositeScore", done |-> FALSE,
               found |-> found, exited |-> FALSE, exitCode |-> 0,
               cveMetrics |-> cve,
               packageMetrics |-> [maintenance |-> m, complexity |-> c],
               output |-> calculateCompositeScore(
                            [totalCVEs |-> 0, avgCVEsPerYear |-> 0, criticalCVEsPerYear |-> 0,
                             highCVEsPerYear |-> 0,
                             bySeverity |-> [CRITICAL |-> 0, HIGH |-> 0, MODERATE |-> 0,
                                             LOW |-> 0, UNKNOWN |-> 0]],
                            [maintenance |-> [score |-> 100, daysKnown |-> FALSE,
                                              daysSinceLastRelease |-> 0,
                                              releaseFrequency |-> "active"],
                             complexity |-> [score |-> 100, directDependencies |-> 0]])]

\* The caller applies calculateCompositeScore.
Score ==
  /\ pure.fn = "calculateCompositeScore"
  /\ ~pure.done
  /\ pure' = [pure EXCEPT !.done = TRUE,
                          !.output = calculateCompositeScore(pure.cveMetrics,
                                                             pure.packageMetrics)]
  /\ UNCHANGED <<concurrency, vulnCache, fetchCount, task, project, world>>

\* The check command prints the result of analyzePackage (found as
\* getPackageMetrics reported it, with the score just computed) and exits.
CheckCommand ==
  /\ pure.fn = "calculateCompositeScore"
  /\ pure.done
  /\ ~pure.exited
  /\ pure' = [pure EXCEPT !.exited = TRUE,
                          !.exitCode = CheckExitCode([found |-> pure.found,
                                                      score |-> pure.output])]
  /\ UNCHANGED <<concurrency, vulnCache, fetchCount, task, project, world>>

NextScore == Score \/ CheckCommand

SpecScore == InitScore /\ [][NextScore]_vars

\* --------------------------------- calculateProjectSummary (analyzer.js)
\* packages.filter((p) => p.score)
HasScore(p) == p.hasScore

\* reduce / += over a list of numbers.
RECURSIVE SumList(_)
SumList(numbers) ==
  IF Len(numbers) = 0 THEN 0 ELSE numbers[1] + SumList(Tail(numbers))

\* Math.round(total / count) for count > 0.
RoundedMean(total, count) == (2 * total + count) \div (2 * count)

\* A sort that puts a package before the earlier ones of the same score.
InsertBeforeEqual(sorted, p) ==
  LET k == Cardinality({ q \in 1..Len(sorted) :
                           sorted[q].score.totalScore < p.score.totalScore })
  IN SubSeq(sorted, 1, k) \o << p >> \o SubSeq(sorted, k + 1, Len(sorted))

\* Array.prototype.sort with (a, b) => a.score.totalScore - b.score.totalScore:
\* lowest first, and stable.
InsertByScore(sorted, p) ==
  LET k == Cardinality({ q \in 1..Len(sorted) :
                           sorted[q].score.totalScore <= p.score.totalScore })
  IN SubSeq(sorted, 1, k) \o << p >> \o SubSeq(sorted, k + 1, Len(sorted))

RECURSIVE SortByScoreFrom(_, _, _)
SortByScoreFrom(packages, k, sorted) ==
  IF k > Len(packages) THEN sorted
  ELSE SortByScoreFrom(packages, k + 1, InsertByScore(sorted, packages[k]))

RiskLevels == {"LOW", "MEDIUM", "ELEVATED", "HIGH", "CRITICAL"}

\* The summary of a project without scored packages: null.
NoSummary ==
  [isNull |-> TRUE, averageScore |-> 0, totalMaintenanceHours |-> 0, totalCVEs |-> 0,
   totalCriticalCVEs |-> 0, riskDistribution |-> [r \in RiskLevels |-> 0],
   highestRiskPackages |-> <<>>]

calculateProjectSummary(packages) ==
  LET validPackages == SelectSeq(packages, HasScore)
      count == Len(validPackages)
      scores == [k \in 1..count |-> validPackages[k].score.totalScore]
      sorted == SortByScoreFrom(validPackages, 1, <<>>)
      top == Slice(sorted, 0, 5)
  IN IF count = 0 THEN NoSummary
     ELSE [isNull |-> FALSE,
           averageScore |-> RoundedMean(SumList(scores), count),
           totalMaintenanceHours |->
             SumList([k \in 1..count |-> validPackages[k].score.estimatedAnnualMaintenanceHours]),
           totalCVEs |-> SumList([k \in 1..count |-> validPackages[k].cveMetrics.totalCVEs]),
           totalCriticalCVEs |->
             SumList([k \in 1..count |-> validPackages[k].cveMetrics.bySeverity.CRITICAL]),
           riskDistribution |->
             [r \in RiskLevels |->
                Cardinality({ k \in 1..count : validPackages[k].score.riskLevel = r })],
           highestRiskPackages |->
             [k \in 1..Len(top) |-> [name |-> top[k].packageName,
                                      score |-> top[k].score.totalScore,
                                      risk |-> top[k].score.riskLevel]]]

\* ---------------------------------------------- one calculateProjectSummary
\* Longest list of package results summarised.
MaxPackages == 6

\* What an analysed package may look like: total score, estimated hours,
\* findings, critical findings.
PackageProfiles == { <<15, 30, 12, 3>>, <<35, 12, 4, 1>>, <<59, 7, 2, 0>>, <<60, 5, 1, 1>>,
                     <<80, 2, 0, 0>> }

\* A package result that carries a score (named by its place in the list),
\* and the result of an analysis that raised an error.
ScoredPackage(k, profile) ==
  [packageName |-> k, hasScore |-> TRUE,
   score |-> [totalScore |-> profile[1], riskLevel |-> getRiskLevel(profile[1]),
              estimatedAnnualMaintenanceHours |-> profile[2]],
   cveMetrics |-> [totalCVEs |-> profile[3], bySeverity |-> [CRITICAL |-> profile[4]]]]

FailedPackage(k) ==
  [packageName |-> k, hasScore |-> FALSE,
   score |-> [totalScore |-> 0, riskLevel |-> "", estimatedAnnualMaintenanceHours |-> 0],
   cveMetrics |-> [totalCVEs |-> 0, bySeverity |-> [CRITICAL |-> 0]]]

\* The list of package results with the given profiles, <<>> standing for a
\* failed analysis.
PackageList(kinds) ==
  [k \in 1..Len(kinds) |-> IF kinds[k] = <<>> THEN FailedPackage(k)
                           ELSE ScoredPackage(k, kinds[k])]

InitSummary ==
  /\ concurrency = 1
  /\ vulnCache = [n \in Names |-> NoEntry]
  /\ fetchCount = [n \in Names |-> 0]
  /\ task = <<>>
  /\ project = NoProject
  /\ world = OsvOnlyWorld(0)
  /\ \E len \in 0..MaxPackages :
       \E kinds \in [1..len -> PackageProfiles \cup { <<>> }] :
         pure = [fn |-> "calculateProjectSummary", done |-> FALSE,
                 packages |-> PackageList(kinds), output |-> NoSummary]

\* The caller applies calculateProjectSummary.
Summarise ==
  /\ pure.fn = "calculateProjectSummary"
  /\ ~pure.done
  /\ pure' = [pure EXCEPT !.done = TRUE,
                          !.output = calculateProjectSummary(pure.packages)]
  /\ UNCHANGED <<concurrency, vulnCache, fetchCount, task, project, world>>

NextSummary == Summarise

SpecSummary == InitSummary /\ [][NextSummary]_vars

\* --------------------------------------------- one extractPackagesFromGraph
\* Longest node list explored.
MaxNodes == 3

\* versionKey.name of a versionKey that has no name.
NoName == "<undefined>"

\* The nodes explored: no versionKey, or a versionKey whose name or version
\* may be missing, with a relation or without one.
GraphNodes ==
  { KeylessNode }
  \cup { Node(n, v, r) : n \in {"a", "b", NoName},
                         v \in { Version(1, 0, 0, "", FALSE), Version(2, 0, 0, "", FALSE), Null },
                         r \in {"DIRECT", ""} }

InitGraph ==
  /\ concurrency = 1
  /\ vulnCache = [n \in Names |-> NoEntry]
  /\ fetchCount = [n \in Names |-> 0]
  /\ task = <<>>
  /\ project = NoProject
  /\ world = OsvOnlyWorld(0)
  /\ \/ \E g \in { NoGraph, [found |-> TRUE, hasNodes |-> FALSE, nodes |-> <<>>] } :
          pure = [fn |-> "extractPackagesFromGraph", done |-> FALSE, graph |-> g,
                  output |-> <<>>]
     \/ \E len \in 0..MaxNodes :
          \E nodes \in [1..len -> GraphNodes] :
            pure = [fn |-> "extractPackagesFromGraph", done |-> FALSE,
                    graph |-> Graph(nodes), output |-> <<>>]

\* The caller applies extractPackagesFromGraph.
Extract ==
  /\ pure.fn = "extractPackagesFromGraph"
  /\ ~pure.done
  /\ pure' = [pure EXCEPT !.done = TRUE,
                          !.output = extractPackagesFromGraph(pure.graph)]
  /\ UNCHANGED <<concurrency, vulnCache, fetchCount, task, project, world>>

NextGraph == Extract

SpecGraph == InitGraph /\ [][NextGraph]_vars

\* ------------------------------------------------- one calculateCVEMetrics
\* Dates are whole days since 1970-01-01 (UTC); a year of 365.25 days is
\* YearUnits quarter-days, so a span of d days is 4 * d units of 1/1461 year.
YearUnits == 1461

\* `published` of a finding that has none.
NoDate == -1

\* Date.getFullYear for a day number, leap years included (1970..2099).
getFullYear(day) ==
  LET r == day % 1461
  IN 1970 + 4 * (day \div 1461)
       + (IF r < 365 THEN 0 ELSE IF r < 730 THEN 1 ELSE IF r < 1096 THEN 2 ELSE 3)

\* String.toUpperCase on the severity words explored.
toUpperCase(s) ==
  CASE s = "critical" -> "CRITICAL"
    [] s = "high" -> "HIGH"
    [] s = "moderate" -> "MODERATE"
    [] s = "low" -> "LOW"
    [] OTHER -> s

\* A finding: its publish day (or NoDate), database_specific.severity (or ""),
\* and the score of its first CVSS_V3 severity entry in tenths (or -1 when it
\* has no such entry).
Vulnerability(published, dbSeverity, cvss) ==
  [published |-> published, dbSeverity |-> dbSeverity, cvss |-> cvss]

\* The severity bucket of one finding.
SeverityOf(vuln) ==
  IF vuln.dbSeverity # "" THEN toUpperCase(vuln.dbSeverity)
  ELSE IF vuln.cvss >= 0
    THEN IF vuln.cvss >= 90 THEN "CRITICAL"
         ELSE IF vuln.cvss >= 70 THEN "HIGH"
         ELSE IF vuln.cvss >= 40 THEN "MODERATE"
         ELSE "LOW"
  ELSE "UNKNOWN"

SeverityNames == {"CRITICAL", "HIGH", "MODERATE", "LOW", "UNKNOWN"}

\* The loop over the findings: severity counts, year buckets, oldest and
\* newest publish day.
RECURSIVE CveLoop(_, _, _)
CveLoop(vulnerabilities, i, acc) ==
  IF i > Len(vulnerabilities) THEN acc
  ELSE
    LET vuln == vulnerabilities[i]
        dated == vuln.published # NoDate
        year == getFullYear(vuln.published)
        byYear ==
          IF ~dated THEN acc.byYear
          ELSE IF year \in DOMAIN acc.byYear
            THEN [acc.byYear EXCEPT ![year] = @ + 1]
            ELSE [y \in DOMAIN acc.byYear \cup {year} |->
                    IF y = year THEN 1 ELSE acc.byYear[y]]
        oldestDate ==
          IF dated /\ (acc.oldestDate = NoDate \/ vuln.published < acc.oldestDate)
            THEN vuln.published ELSE acc.oldestDate
        newestDate ==
          IF dated /\ (acc.newestDate = NoDate \/ vuln.published > acc.newestDate)
            THEN vuln.published ELSE acc.newestDate
        severity == SeverityOf(vuln)
    IN CveLoop(vulnerabilities, i + 1,
               [bySeverity |-> [acc.bySeverity EXCEPT ![severity] = @ + 1],
                byYear |-> byYear,
                oldestDate |-> oldestDate,
                newestDate |-> newestDate])

CveScan(vulnerabilities) ==
  CveLoop(vulnerabilities, 1,
          [bySeverity |-> [s \in SeverityNames |-> 0],
           byYear |-> <<>>,
           oldestDate |-> NoDate,
           newestDate |-> NoDate])

\* The span between the oldest and the newest dated finding, in units of
\* 1/1461 year; 0 when no finding is dated.
yearsOfData(scan) ==
  IF scan.oldestDate # NoDate /\ scan.newestDate # NoDate
    THEN 4 * (scan.newestDate - scan.oldestDate)
    ELSE 0

\* A divisor that is only kept away from zero.
effectiveYearsNonZero(years) == Max(years, 1)

\* Math.max(yearsOfData, 1), in units of 1/1461 year.
effectiveYears(years) == Max(years, YearUnits)

\* parseFloat((count / effectiveYears).toFixed(2)), in hundredths.
PerYear(count, years) ==
  (2 * 100 * count * YearUnits + years) \div (2 * years)

\* parseFloat(yearsOfData.toFixed(1)), in tenths.
YearsToFixed1(years) == (2 * 10 * years + YearUnits) \div (2 * YearUnits)

calculateCVEMetrics(vulnerabilities) ==
  IF Len(vulnerabilities) = 0
    THEN [totalCVEs |-> 0, avgCVEsPerYear |-> 0, criticalCVEsPerYear |-> 0,
          highCVEsPerYear |-> 0, moderateCVEsPerYear |-> 0, lowCVEsPerYear |-> 0,
          bySeverity |-> [s \in SeverityNames |-> 0], byYear |-> <<>>,
          oldestCVE |-> NoDate, newestCVE |-> NoDate]
    ELSE
      LET scan == CveScan(vulnerabilities)
          years == effectiveYears(yearsOfData(scan))
          totalCVEs == Len(vulnerabilities)
      IN [totalCVEs |-> totalCVEs,
          avgCVEsPerYear |-> PerYear(totalCVEs, years),
          criticalCVEsPerYear |-> PerYear(scan.bySeverity["CRITICAL"], years),
          highCVEsPerYear |-> PerYear(scan.bySeverity["HIGH"], years),
          moderateCVEsPerYear |-> PerYear(scan.bySeverity["MODERATE"], years),
          lowCVEsPerYear |-> PerYear(scan.bySeverity["LOW"], years),
          bySeverity |-> scan.bySeverity,
          byYear |-> scan.byYear,
          oldestCVE |-> scan.oldestDate,
          newestCVE |-> scan.newestDate,
          yearsOfData |-> YearsToFixed1(yearsOfData(scan))]

\* Longest finding list explored.
MaxFindings == 3

\* The findings explored: undated or published on one of four days (two in
\* one year, one less than a year and one more than four years after the
\* first), with a severity word, a CVSS score or neither.
Findings ==
  { Vulnerability(p, s[1], s[2]) :
      p \in {NoDate, 0, 200, 400, 1500},
      s \in { <<"", -1>>, <<"high", -1>>, <<"CRITICAL", 95>>, <<"MODERATE", -1>>,
              <<"", 90>>, <<"", 39>> } }

InitCveMetrics ==
  /\ concurrency = 1
  /\ vulnCache = [n \in Names |-> NoEntry]
  /\ fetchCount = [n \in Names |-> 0]
  /\ task = <<>>
  /\ project = NoProject
  /\ world = OsvOnlyWorld(0)
  /\ \E len \in 0..MaxFindings :
       \E vulnerabilities \in [1..len -> Findings] :
         pure = [fn |-> "calculateCVEMetrics", done |-> FALSE,
                 vulnerabilities |-> vulnerabilities, output |-> <<>>]

\* The caller applies calculateCVEMetrics.
Measure ==
  /\ pure.fn = "calculateCVEMetrics"
  /\ ~pure.done
  /\ pure' = [pure EXCEPT !.done = TRUE,
                          !.output = calculateCVEMetrics(pure.vulnerabilities)]
  /\ UNCHANGED <<concurrency, vulnCache, fetchCount, task, project, world>>

NextCveMetrics == Measure

SpecCveMetrics == InitCveMetrics /\ [][NextCveMetrics]_vars

\* --------------------------------------------- calculateMaintenanceMetrics
\* The clock of calculateMaintenanceMetrics counts half days, so that a
\* publish time need not be a whole number of days before Date.now();
\* publishedAt 0 stands for a missing publishedAt, as in VersionEntry.
DayTicks == 2

\* Date.now(), in half days.
Now == 10000

\* ToNumber of daysSinceLastRelease in a comparison: null compares as 0.
DaysNumber(daysKnown, days) == IF daysKnown THEN days ELSE 0

\* The versions published after twoYearsAgo (lines 99-103).
RECURSIVE RecentFrom(_, _)
RecentFrom(versions, k) ==
  IF k > Len(versions) THEN 0
  ELSE (IF versions[k].publishedAt > Now - 2 * 365 * DayTicks THEN 1 ELSE 0)
       + RecentFrom(versions, k + 1)

\* The frequency bands with the boundaries included.
FrequencyInclusive(recentReleases) ==
  IF recentReleases >= 2 * 12 THEN "very active"
  ELSE IF recentReleases >= 2 * 6 THEN "active"
  ELSE IF recentReleases >= 2 * 2 THEN "moderate"
  ELSE IF recentReleases > 0 THEN "low"
  ELSE "abandoned"

\* Lines 105-111: releasesPerYear is recentReleases / 2, so each threshold
\* is compared with twice its value.
Frequency(recentReleases) ==
  IF recentReleases > 2 * 12 THEN "very active"
  ELSE IF recentReleases > 2 * 6 THEN "active"
  ELSE IF recentReleases > 2 * 2 THEN "moderate"
  ELSE IF recentReleases > 0 THEN "low"
  ELSE "abandoned"

calculateMaintenanceMetrics(packageInfo) ==
  IF ~packageInfo.found \/ ~packageInfo.hasVersions
    THEN [score |-> 0, lastReleaseDate |-> 0, daysKnown |-> FALSE,
          daysSinceLastRelease |-> 0, releaseFrequency |-> "unknown",
          totalVersions |-> 0, activelyMaintained |-> FALSE]
    ELSE
      LET versions == packageInfo.versions
          sortedVersions == SortByDateDesc(versions)
          lastReleaseDate ==
            IF Len(sortedVersions) > 0 THEN sortedVersions[1].publishedAt ELSE 0
          daysKnown == lastReleaseDate # 0
          daysSinceLastRelease ==
            IF daysKnown THEN (Now - lastReleaseDate) \div DayTicks ELSE 0
          days == DaysNumber(daysKnown, daysSinceLastRelease)
          recentReleases == RecentFrom(versions, 1)
          releaseFrequency == Frequency(recentReleases)
          stale == IF days > 730 THEN 60
                   ELSE IF days > 365 THEN 40
                   ELSE IF days > 180 THEN 20
                   ELSE IF days > 90 THEN 10
                   ELSE 0
          infrequent == IF releaseFrequency = "abandoned" THEN 30
                        ELSE IF releaseFrequency = "low" THEN 15
                        ELSE 0
      IN [score |-> Clamp(100 - stale - infrequent),
          lastReleaseDate |-> IF daysKnown THEN lastReleaseDate \div DayTicks ELSE 0,
          daysKnown |-> daysKnown,
          daysSinceLastRelease |-> daysSinceLastRelease,
          releaseFrequency |-> releaseFrequency,
          releasesPerYear |-> 5 * recentReleases,
          totalVersions |-> Len(versions),
          activelyMaintained |-> days < 365 /\ releaseFrequency # "abandoned"]

\* Most dated releases of one package explored.
MaxReleases == 26

\* Ages of the latest release, in half days: around every staleness band and
\* around the two-year window.
LatestAges ==
  { 0, 1, 180, 181, 182, 183, 360, 361, 362, 363, 729, 730, 731, 732,
    1459, 1460, 1461, 1462, 1463, 2000 }

\* Half days between one release and the one before it.
ReleaseGaps == { 0, 1, 60, 200 }

\* A release history: `count` dated releases, the latest `age` half days old
\* and each earlier one `gap` half days older, newest or oldest first, with
\* `undated` releases that carry no publishedAt in front.
ReleaseHistory(count, age, gap, newestFirst, undated) ==
  [k \in 1..undated |-> VersionEntry(Version(0, 0, k, "", FALSE), 0)]
  \o [k \in 1..count |->
        LET j == IF newestFirst THEN k ELSE count + 1 - k
        IN VersionEntry(Version(1, 0, j, "", FALSE), Now - age - (j - 1) * gap)]

InitMaintenance ==
  /\ concurrency = 1
  /\ vulnCache = [n \in Names |-> NoEntry]
  /\ fetchCount = [n \in Names |-> 0]
  /\ task = <<>>
  /\ project = NoProject
  /\ world = OsvOnlyWorld(0)
  /\ \/ \E info \in { NoPackageInfo,
                      [found |-> TRUE, hasVersions |-> FALSE, versions |-> <<>>] } :
          pure = [fn |-> "calculateMaintenanceMetrics", done |-> FALSE,
                  packageInfo |-> info, output |-> <<>>]
     \/ \E count \in 0..MaxReleases, age \in LatestAges, gap \in ReleaseGaps,
           newestFirst \in BOOLEAN, undated \in 0..1 :
          pure = [fn |-> "calculateMaintenanceMetrics", done |-> FALSE,
                  packageInfo |->
                    [found |-> TRUE, hasVersions |-> TRUE,
                     versions |-> ReleaseHistory(count, age, gap, newestFirst, undated)],
                  output |-> <<>>]

\* The caller applies calculateMaintenanceMetrics.
Assess ==
  /\ pure.fn = "calculateMaintenanceMetrics"
  /\ ~pure.done
  /\ pure' = [pure EXCEPT !.done = TRUE,
                          !.output = calculateMaintenanceMetrics(pure.packageInfo)]
  /\ UNCHANGED <<concurrency, vulnCache, fetchCount, task, project, world>>

NextMaintenance == Assess

SpecMaintenance == InitMaintenance /\ [][NextMaintenance]_vars

\* ---------------------------------- calculateComplexityMetrics (depsDev.js)
\* The overrides argument: each count given or left out.
NoOverrides == [hasDirect |-> FALSE, directDependencies |-> 0,
                hasTotal |-> FALSE, totalDependencies |-> 0]

\* versionInfo here is what getVersionInfo returns: null, or the release
\* data with the number of dependencies it declares (if it lists any).
calculateComplexityMetrics(versionInfo, overrides) ==
  IF ~versionInfo.found \/ ~versionInfo.hasDependencies
    THEN [score |-> 100,
          directDependencies |-> IF overrides.hasDirect THEN overrides.directDependencies ELSE 0,
          totalDependencies |-> IF overrides.hasTotal THEN overrides.totalDependencies ELSE 0,
          complexityLevel |-> "low"]
    ELSE
      LET directDeps == IF overrides.hasDirect THEN overrides.directDependencies
                        ELSE versionInfo.dependencies
          totalDeps == IF overrides.hasTotal THEN overrides.totalDependencies
                       ELSE directDeps * 15
          byTotal == IF totalDeps > 500 THEN 50
                     ELSE IF totalDeps > 200 THEN 35
                     ELSE IF totalDeps > 100 THEN 20
                     ELSE IF totalDeps > 50 THEN 10
                     ELSE 0
          byDirect == IF directDeps > 50 THEN 20
                      ELSE IF directDeps > 30 THEN 15
                      ELSE IF directDeps > 15 THEN 10
                      ELSE IF directDeps > 5 THEN 5
                      ELSE 0
      IN [score |-> Clamp(100 - byTotal - byDirect),
          directDependencies |-> directDeps,
          totalDependencies |-> totalDeps,
          complexityLevel |-> IF totalDeps > 500 THEN "very high"
                              ELSE IF totalDeps > 200 THEN "high"
                              ELSE IF totalDeps > 50 THEN "moderate"
                              ELSE "low"]

\* getPackageMetrics line 288: the calculator is called without overrides.
MetricsComplexity(versionInfo) == calculateComplexityMetrics(versionInfo, NoOverrides)

\* analyzePackage lines 224-229: the counts of the record are replaced by
\* the counts of the tree.
UpdateComplexity(complexity, transitiveResult) ==
  IF transitiveResult.totalPackagesInTree > 0
    THEN [complexity EXCEPT !.totalDependencies = transitiveResult.totalPackagesInTree,
                            !.directDependencies = transitiveResult.directPackageCount]
    ELSE complexity

\* The version metadata explored: none, a release that lists no
\* dependencies, and releases declaring a number of dependencies around
\* every band of the direct count and of the estimate of 15 per dependency.
ComplexityVersionInfos ==
  { NoVersionInfo, [found |-> TRUE, hasDependencies |-> FALSE, dependencies |-> 0] }
  \cup { [found |-> TRUE, hasDependencies |-> TRUE, dependencies |-> n] :
           n \in {0, 3, 4, 5, 6, 7, 13, 14, 15, 16, 30, 31, 33, 34, 50, 51} }

\* The tree sizes explored: unique names and direct dependencies around
\* every band, and the empty tree.
TreeCounts ==
  { [totalPackagesInTree |-> total, directPackageCount |-> direct] :
      total \in {0, 1, 3, 50, 51, 100, 101, 200, 201, 500, 501},
      direct \in {0, 1, 5, 6, 15, 16, 30, 31, 50, 51} }

InitComplexity ==
  /\ concurrency = 1
  /\ vulnCache = [n \in Names |-> NoEntry]
  /\ fetchCount = [n \in Names |-> 0]
  /\ task = <<>>
  /\ project = NoProject
  /\ world = OsvOnlyWorld(0)
  /\ \E versionInfo \in ComplexityVersionInfos, transitiveResult \in TreeCounts :
       pure = [fn |-> "analyzePackage.complexity", done |-> FALSE,
               versionInfo |-> versionInfo, transitiveResult |-> transitiveResult,
               output |-> <<>>]

\* analyzePackage from the return of getPackageMetrics to the record it
\* hands to the scorer.
Complexity ==
  /\ pure.fn = "analyzePackage.complexity"
  /\ ~pure.done
  /\ pure' = [pure EXCEPT !.done = TRUE,
                          !.output = UpdateComplexity(MetricsComplexity(pure.versionInfo),
                                                      pure.transitiveResult)]
  /\ UNCHANGED <<concurrency, vulnCache, fetchCount, task, project, world>>

NextComplexity == Complexity

SpecComplexity == InitComplexity /\ [][NextComplexity]_vars

\* ------------------------------- the CVE metrics of a tree (analyzer.js)
\* The OSV record a finding carries, as calculateCVEMetrics reads it: the
\* copy of an advisory served for package "a" rates it HIGH, the copy served
\* for any other package rates it CRITICAL.
OsvRecord(finding) ==
  Vulnerability(0, IF finding.source = "a" THEN "HIGH" ELSE "CRITICAL", -1)

\* analyzer.js line 179: calculateCVEMetrics(deduplicatedVulns).
TreeCveMetrics(deduplicatedVulns) ==
  calculateCVEMetrics([k \in 1..Len(deduplicatedVulns) |-> OsvRecord(deduplicatedVulns[k])])

\* ------------------------------- getTransitiveCVEMetrics in shallow mode
\* The shallow flag ignored: the call goes on to version resolution.
EnterShallowAsDeep(tk) == [tk EXCEPT !.pc = "awaitPackageInfo"]

\* analyzer.js lines 80-81: in shallow mode the call goes straight to
\* getPackageVulnerabilityMetrics, which posts one query for the package.
EnterShallow(tk) ==
  [tk EXCEPT !.pc = "awaitShallow",
             !.answers = << [Idle EXCEPT !.state = "inflight"] >>]

\* osv.js lines 209-213 and analyzer.js lines 82-88: the metrics are
\* computed from data.vulns || [] and returned with the fixed counts.
ShallowReturn(tk, outcome) ==
  LET data == queryVulnerabilities(outcome)
  IN [tk EXCEPT !.pc = "returned",
                !.answers = << [state |-> "done", outcome |-> outcome, data |-> data] >>,
                !.ret = [vulns |-> VulnsOf(data),
                         transitivePackageCount |-> 0,
                         directPackageCount |-> 0,
                         totalPackagesInTree |-> 1,
                         packageNames |-> << tk.packageName >>]]

\* getTransitiveCVEMetrics(packageName, versionRange, {vulnCache, shallow: true}).
CallShallow(t) ==
  /\ task[t].kind = "shallow"
  /\ task[t].pc = "ready"
  /\ task' = [task EXCEPT ![t] = EnterShallow(task[t])]
  /\ fetchCount' = [n \in Names |->
                      fetchCount[n] + (IF task'[t].pc = "awaitShallow" /\ n = task[t].packageName
                                       THEN 1 ELSE 0)]
  /\ UNCHANGED <<concurrency, vulnCache, project, pure, world>>

\* The response to the one query arrives (or the request fails).
ShallowResponse(t) ==
  /\ task[t].pc = "awaitShallow"
  /\ \E outcome \in OsvOutcomes(task[t].packageName) :
       /\ task' = [task EXCEPT ![t] = ShallowReturn(task[t], outcome)]
       /\ world' = AfterOutcome(Failed(outcome))
  /\ UNCHANGED <<concurrency, vulnCache, fetchCount, project, pure>>

\* A shallow call for any package, with any cache handed in.
InitShallow ==
  /\ concurrency \in 1..MaxConcurrency
  /\ vulnCache \in SeededCaches
  /\ fetchCount = [n \in Names |-> 0]
  /\ project = NoProject
  /\ pure = NoPure
  /\ \E name \in Names, range \in { Null, Range(<< Comparator("^", 1, 0, 0, "") >>) } :
       task = [t \in {1} |-> NewTask("shallow", name, range, <<>>)]
  /\ world = [osv |-> [n \in Names |-> FindingLists(n)],
              versions |-> RegistryVersions,
              graphs |-> ProjectGraphs,
              faults |-> MaxFaults]

NextShallow ==
  \/ \E t \in DOMAIN task : CallShallow(t)
  \/ \E t \in DOMAIN task : ShallowResponse(t)

SpecShallow == InitShallow /\ [][NextShallow]_vars

\* ----------------------------------- the score of one package (analyzer.js)
\* analyzePackage lines 219-232: the three calculators feed the scorer. A
\* package without metadata gets calculateComplexityMetrics(null).
PackageScore(vulnerabilities, packageInfo, versionInfo, transitiveResult) ==
  LET cveMetrics == calculateCVEMetrics(vulnerabilities)
      packageMetrics ==
        [maintenance |-> calculateMaintenanceMetrics(packageInfo),
         complexity |-> UpdateComplexity(
                          MetricsComplexity(IF packageInfo.found THEN versionInfo
                                            ELSE NoVersionInfo),
                          transitiveResult)]
  IN calculateCompositeScore(cveMetrics, packageMetrics)

\* A finding list with the given numbers of CRITICAL, HIGH and LOW findings,
\* the first published on day 0 and the others `span` later.
FindingsOfSeverity(critical, high, low, span) ==
  [k \in 1..(critical + high + low) |->
     Vulnerability(IF k = 1 THEN 0 ELSE span,
                   IF k <= critical THEN "CRITICAL"
                   ELSE IF k <= critical + high THEN "HIGH" ELSE "LOW",
                   -1)]

\* The finding lists scored: none, few and many findings of each severity,
\* within one day, within a year and over more than two years.
ScoredFindings ==
  { FindingsOfSeverity(c, h, l, span) :
      c \in {0, 1, 3}, h \in {0, 2, 4}, l \in {0, 1, 11}, span \in {0, 1400, 3000} }

\* The release histories scored: no metadata, metadata without a version
\* list, and few or many releases with the latest in each staleness band.
ScoredPackageInfos ==
  { NoPackageInfo, [found |-> TRUE, hasVersions |-> FALSE, versions |-> <<>>] }
  \cup { [found |-> TRUE, hasVersions |-> TRUE,
          versions |-> ReleaseHistory(count, age, gap, TRUE, 0)] :
           count \in {0, 1, 5, 13, 25}, age \in {0, 182, 362, 732, 1462, 2000},
           gap \in {1, 200} }

\* The version metadata scored: a count of declared dependencies in every
\* band, or none.
ScoredVersionInfos ==
  { v \in ComplexityVersionInfos : v.dependencies \in {0, 6, 16, 31, 51} }

\* The trees scored: empty, the root alone, and a large one.
ScoredTrees ==
  { c \in TreeCounts : <<c.totalPackagesInTree, c.directPackageCount>>
                         \in { <<0, 0>>, <<1, 0>>, <<501, 51>> } }

InitPackageScore ==
  /\ concurrency = 1
  /\ vulnCache = [n \in Names |-> NoEntry]
  /\ fetchCount = [n \in Names |-> 0]
  /\ task = <<>>
  /\ project = NoProject
  /\ world = OsvOnlyWorld(0)
  /\ \E vulnerabilities \in ScoredFindings, packageInfo \in ScoredPackageInfos,
        versionInfo \in ScoredVersionInfos, transitiveResult \in ScoredTrees :
       pure = [fn |-> "analyzePackage.score", done |-> FALSE,
               vulnerabilities |-> vulnerabilities, packageInfo |-> packageInfo,
               versionInfo |-> versionInfo, transitiveResult |-> transitiveResult,
               output |-> <<>>]

\* analyzePackage computes the score of the package.
ScorePackage ==
  /\ pure.fn = "analyzePackage.score"
  /\ ~pure.done
  /\ pure' = [pure EXCEPT !.done = TRUE,
                          !.output = PackageScore(pure.vulnerabilities, pure.packageInfo,
                                                  pure.versionInfo, pure.transitiveResult)]
  /\ UNCHANGED <<concurrency, vulnCache, fetchCount, task, project, world>>

NextPackageScore == ScorePackage

SpecPackageScore == InitPackageScore /\ [][NextPackageScore]_vars

\* ------------------------------------- termination under a fair event loop
\* A registry in which every package is its whole dependency tree.
RootOnlyGraphs ==
  [p \in Names |-> { Graph(<< Node(p, Version(1, 0, 0, "", FALSE), "SELF") >>) }]

\* The dependency lists of the project runs: none, one, and two dependencies.
FairDependencies == { <<>>, << "c" >>, << "c", "b" >> }

\* Either one caller of queryVulnerabilitiesBatch (any list of up to three
\* names, repeated names included, on a cache that may hold the first name;
\* one query may fail), or one analyzeProject run in which a request may be
\* answered with a 404 or with incomplete data.
InitTermination ==
  /\ fetchCount = [n \in Names |-> 0]
  /\ pure = NoPure
  /\ \/ /\ concurrency \in 1..MaxConcurrency
        /\ project = NoProject
        /\ world = [OsvOnlyWorld(Min(MaxFaults, 1)) EXCEPT !.osv = SharedAdvisory]
        /\ \E names \in { l \in NameLists : Len(l) <= Min(MaxNames, 3) } :
             /\ vulnCache \in { [n \in Names |-> NoEntry],
                                [n \in Names |-> IF Len(names) > 0 /\ n = names[1]
                                                 THEN [has |-> TRUE, vulns |-> <<>>]
                                                 ELSE NoEntry] }
             /\ task = [t \in {1} |-> NewTask("batch", "", <<>>, names)]
     \/ /\ concurrency \in 1..Min(MaxConcurrency, 2)
        /\ vulnCache = [n \in Names |-> NoEntry]
        /\ world = [osv |-> SharedAdvisory, versions |-> RegistryVersions,
                    graphs |-> RootOnlyGraphs, faults |-> 0]
        /\ \E d \in FairDependencies :
             /\ project = [pc |-> "ready",
                           dependencies |-> [k \in 1..Len(d) |->
                                               [name |-> d[k],
                                                version |-> Range(<< Comparator("^", 1, 0, 0, "") >>)]],
                           i |-> 0, packages |-> <<>>]
             /\ task = [t \in 1..Len(d) |->
                          NewTask("package", d[t], Range(<< Comparator("^", 1, 0, 0, "") >>), <<>>)]

NextTermination ==
  \/ \E t \in DOMAIN task : CallBatch(t)
  \/ StartProject
  \/ \E t \in DOMAIN task : \E j \in 1..Len(task[t].answers) : QueryResponse(t, j)
  \/ \E t \in DOMAIN task : MetricsInfoResponse(t)
  \/ \E t \in DOMAIN task : VersionInfoResponse(t)
  \/ ProjectBatchSettled
  \/ \E t \in DOMAIN task : BatchSettled(t)
  \/ \E t \in DOMAIN task : FallbackResponse(t)
  \/ \E t \in DOMAIN task : GraphResponse(t)
  \/ \E t \in DOMAIN task : PackageInfoResponse(t)

\* Every network request eventually completes (successfully or not) and the
\* event loop runs every continuation that is ready: a step that can be
\* taken is eventually taken.
SpecTermination ==
  InitTermination /\ [][NextTermination]_vars /\ WF_vars(NextTermination)

\* ======================================================== the properties
\* The one call of SpecBatch and of SpecTransitive.
Call == task[1]

\* The list a query outcome stands for: the body's list, [] if it has none
\* or if the request failed.
ListOfOutcome(outcome) ==
  IF outcome.kind = "ok" /\ outcome.hasVulns THEN outcome.vulns ELSE <<>>

\* The last slot of uncachedNames that holds `name`.
LastSlot(tk, name) ==
  CHOOSE j \in 1..Len(tk.uncachedNames) :
    /\ tk.uncachedNames[j] = name
    /\ \A k \in (j + 1)..Len(tk.uncachedNames) : tk.uncachedNames[k] # name

\* C1: a queryVulnerabilitiesBatch call never has more than N queries in
\* flight, every query issued so far belongs to the current batch or an
\* earlier one, and every query of an earlier batch has completed.
C1_BatchesSequential ==
  /\ Cardinality(InFlight(Call)) <= concurrency
  /\ \A j \in 1..Len(Call.answers) :
       /\ Call.answers[j].state # "idle" => j <= Call.i + concurrency
       /\ j <= Call.i => Call.answers[j].state = "done"

\* A second batch is in flight and fills the concurrency limit.
C1_Witness ==
  /\ Call.pc = "awaitBatch"
  /\ Call.i > 0
  /\ Len(Call.uncachedNames) > Call.i
  /\ Cardinality(InFlight(Call)) = concurrency

\* C3: a second call with the same names and cache, made after the first has
\* returned, issues no query, returns the cached list for every name and
\* leaves the cache as it was.
C3_SecondCallServedFromCache ==
  Call.calls = 2 =>
    /\ Call.pc \in {"ready", "returned"}
    /\ fetchCount = Call.priorFetch
    /\ vulnCache = Call.priorCache
    /\ Call.pc = "returned" =>
         \A k \in 1..Len(Call.packageNames) :
           /\ MapHas(Call.results, Call.packageNames[k])
           /\ MapGet(Call.results, Call.packageNames[k])
                = Call.priorCache[Call.packageNames[k]].vulns

\* The second call has returned after a first call that fetched a name whose
\* list is empty and a name whose list is not.
C3_Witness ==
  /\ Call.calls = 2
  /\ Call.pc = "returned"
  /\ \E n, m \in Names :
       /\ Call.priorFetch[n] > 0 /\ vulnCache[n].vulns = <<>>
       /\ Call.priorFetch[m] > 0 /\ vulnCache[m].vulns # <<>>

\* C4: when the call returns, every requested name has a list in the result
\* and every fetched name is in the cache with that same list.
C4_ResultCompleteAndCached ==
  Call.pc = "returned" =>
    /\ \A k \in 1..Len(Call.packageNames) : MapHas(Call.results, Call.packageNames[k])
    /\ \A j \in 1..Len(Call.uncachedNames) :
         /\ vulnCache[Call.uncachedNames[j]].has
         /\ vulnCache[Call.uncachedNames[j]].vulns
              = MapGet(Call.results, Call.uncachedNames[j])

\* The first call has returned having fetched a name whose body held an
\* explicit empty list, and more than one batch was needed.
C4_Witness ==
  /\ Call.pc = "returned"
  /\ Call.calls = 1
  /\ Len(Call.uncachedNames) > concurrency
  /\ \E j \in 1..Len(Call.uncachedNames) :
       /\ Call.answers[j].outcome.kind = "ok"
       /\ Call.answers[j].outcome.hasVulns
       /\ Call.answers[j].outcome.vulns = <<>>
       /\ vulnCache[Call.uncachedNames[j]] = [has |-> TRUE, vulns |-> <<>>]

\* C5: a failed query never makes the call reject; the failed name maps to
\* the empty list, every other name to the list its own query or the cache
\* produced.
C5_FailureDegradesToEmpty ==
  /\ Call.pc # "rejected"
  /\ Call.pc = "returned" =>
       \A k \in 1..Len(Call.packageNames) :
         LET name == Call.packageNames[k]
         IN /\ MapHas(Call.results, name)
            /\ MapGet(Call.results, name) =
                 IF Call.entryCache[name].has
                 THEN Call.entryCache[name].vulns
                 ELSE ListOfOutcome(Call.answers[LastSlot(Call, name)].outcome)

\* The call has returned although one query failed, and another name's query
\* produced a finding.
C5_Witness ==
  /\ Call.pc = "returned"
  /\ \E j, k \in 1..Len(Call.uncachedNames) :
       /\ Failed(Call.answers[j].outcome)
       /\ Call.answers[k].outcome.kind = "ok"
       /\ Call.answers[k].outcome.vulns # <<>>
       /\ Call.uncachedNames[j] # Call.uncachedNames[k]
       /\ MapGet(Call.results, Call.uncachedNames[j]) = <<>>

\* The result map re-ordered to the original request order.
InRequestOrder(names, results) ==
  LET firsts == FirstOccurrences(names, 1, <<>>)
  IN [k \in 1..Len(firsts) |-> [name |-> firsts[k], vulns |-> MapGet(results, firsts[k])]]

\* C6: from the batch call's result for the list L, deduplication keeps for
\* each identifier the copy of the package that comes first in L, whichever
\* names were cached when the call was made.
C6_DedupKeepsFirstInRequestOrder ==
  Call.pc = "returned" =>
    deduplicateVulnerabilities(Call.results)
      = deduplicateVulnerabilities(InRequestOrder(Call.packageNames, Call.results))

\* The identifiers (truthy ids) that occur in the lists of a map.
IdsOfMap(m) ==
  { m[k].vulns[q].id : <<k, q>> \in { p \in (1..Len(m)) \X (1..MaxDedupVulns + 1) :
                                        p[2] <= Len(m[p[1]].vulns) } }
  \ {NoId, ""}

\* C7: the output of deduplicateVulnerabilities holds no finding without an
\* identifier and no identifier twice, and its identifiers are exactly those
\* that occur in the input lists.
C7_DedupOutputUniqueIds ==
  (pure.fn = "deduplicateVulnerabilities" /\ pure.done) =>
    /\ \A k \in 1..Len(pure.output) : Truthy(pure.output[k].id)
    /\ \A j, k \in 1..Len(pure.output) :
         j # k => pure.output[j].id # pure.output[k].id
    /\ { pure.output[k].id : k \in 1..Len(pure.output) } = IdsOfMap(pure.input)

\* Deduplication has run on two packages that share an identifier, one of
\* them also holding a finding without identifier.
C7_Witness ==
  /\ pure.fn = "deduplicateVulnerabilities"
  /\ pure.done
  /\ Len(pure.input) = 2
  /\ \E j \in 1..Len(pure.input[1].vulns), k \in 1..Len(pure.input[2].vulns) :
       /\ pure.input[1].vulns[j].id = "CVE-1"
       /\ pure.input[2].vulns[k].id = "CVE-1"
  /\ \E j \in 1..Len(pure.input[1].vulns) : pure.input[1].vulns[j].id = NoId
  /\ Len(pure.output) >= 1

\* The listed valid versions that satisfy a constraint.
Matching(range, list) ==
  { k \in 1..Len(list) : Valid(list[k]) /\ Satisfies(list[k], range) }

\* C8: resolveVersion gives null for an absent or empty constraint or list;
\* for a concrete version, that version if it is listed and null otherwise;
\* for any other constraint the highest listed valid version satisfying it,
\* or null when none does; a non-null result is a member of the list.
C8_ResolveVersion ==
  (pure.fn = "resolveVersion" /\ pure.done) =>
    LET range == pure.range
        list == pure.versions.list
        out == pure.output
    IN /\ (Falsy(range) \/ ~pure.versions.present \/ list = <<>>) => out = Null
       /\ (~Falsy(range) /\ list # <<>> /\ Valid(range)) =>
            out = (IF \E k \in 1..Len(list) : list[k] = range THEN range ELSE Null)
       /\ (~Falsy(range) /\ list # <<>> /\ ~Valid(range)) =>
            IF range.kind # "range" \/ Matching(range, list) = {}
            THEN out = Null
            ELSE /\ \E k \in Matching(range, list) : list[k] = out
                 /\ \A k \in Matching(range, list) : Compare(list[k], out) <= 0
       /\ out # Null => \E k \in 1..Len(list) : list[k] = out
       /\ \A tc \in ResolveTests :
            (tc.range = range /\ tc.versions = pure.versions) => out = tc.expected

\* A caret constraint has been resolved to the higher of two listed versions
\* that satisfy it, listed lower-last.
C8_Witness ==
  /\ pure.fn = "resolveVersion"
  /\ pure.done
  /\ pure.range = Range(<< Comparator("^", 1, 0, 0, "") >>)
  /\ pure.versions.list = << Version(1, 1, 0, "", FALSE), Version(1, 0, 1, "", FALSE) >>
  /\ pure.output = Version(1, 1, 0, "", FALSE)

\* ------------------------------------------------------------------ C2
\* C2 (as stated): within one analyzeProject run, a step never issues a
\* vulnerability query for a name that the shared cache already holds.
C2_NoQueryOncePresent ==
  [][\A n \in Names : fetchCount'[n] > fetchCount[n] => ~vulnCache[n].has]_vars

\* ------------------------------------------------------------------ C9
Log == Call.graphLog

Known == Call.packageInfo.versions

\* How many known versions were published strictly after day d.
NewerThan(d) == Cardinality({ q \in 1..Len(Known) : Known[q].publishedAt > d })

\* The known versions certain to be among the FallbackLimit most recent.
SurelyRecent(q) ==
  Cardinality({ r \in 1..Len(Known) : Known[r].publishedAt >= Known[q].publishedAt })
    <= FallbackLimit

\* C9: the first graph request is for the originally resolved version; the
\* later ones, at most 10, are for other versions among the 10 most recently
\* published, in descending publish-date order, each issued only after all
\* earlier requests failed; and when all of them failed, every version among
\* the 10 most recent other than the original was requested.
C9_FallbackProtocol ==
  /\ Len(Log) >= 1 => Log[1].version = Call.originalVersion
  /\ Len(Log) <= 1 + FallbackLimit
  /\ \A k \in 2..Len(Log) :
       /\ Log[k].version # Call.originalVersion
       /\ ~Falsy(Log[k].version)
       /\ \E q \in 1..Len(Known) :
            Known[q].version = Log[k].version /\ Known[q].publishedAt = Log[k].publishedAt
       /\ NewerThan(Log[k].publishedAt) < FallbackLimit
  /\ \A k, l \in 2..Len(Log) :
       k < l => /\ Log[k].publishedAt >= Log[l].publishedAt
                /\ Log[k].version # Log[l].version
  /\ \A k \in 1..(Len(Log) - 1) : Log[k].state = "failed"
  /\ Call.gotGraph <=> (Len(Log) >= 1 /\ Log[Len(Log)].state = "ok")
  /\ (Call.pc \in {"awaitBatch", "returned"} /\ ~Falsy(Call.originalVersion) /\ ~Call.gotGraph)
       => \A q \in 1..Len(Known) :
            (SurelyRecent(q) /\ ~Falsy(Known[q].version)
               /\ Known[q].version # Call.originalVersion)
              => \E k \in 2..Len(Log) : Log[k].version = Known[q].version

\* The search went through ten fallback versions and the last one had a graph.
C9_Witness ==
  /\ Len(Log) = 1 + FallbackLimit
  /\ Log[Len(Log)].state = "ok"
  /\ Call.pc = "returned"

\* ------------------------------------------------------------------ C10
\* C10: a getTransitiveCVEMetrics call whose version resolution failed, or
\* whose graph requests all failed, is not rejected, asks the batch fetcher
\* for the root package alone (so no other name is ever queried) and
\* reports zero direct and zero indirect packages.
C10_DegradesToRootOnly ==
  /\ Call.pc # "rejected"
  /\ (Call.pc \in {"awaitBatch", "returned"} /\ (Falsy(Call.originalVersion) \/ ~Call.gotGraph))
       => /\ Call.packageNames = << Call.packageName >>
          /\ \A n \in Names : fetchCount[n] > 0 => n = Call.packageName
          /\ fetchCount[Call.packageName] <= 1
  /\ (Call.pc = "returned" /\ (Falsy(Call.originalVersion) \/ ~Call.gotGraph))
       => /\ Call.ret.packageNames = << Call.packageName >>
          /\ Call.ret.totalPackagesInTree = 1
          /\ Call.ret.directPackageCount = 0
          /\ Call.ret.transitivePackageCount = 0

\* The graph requests for the resolved version and for two fallback versions
\* all failed, and the call returned.
C10_Witness ==
  /\ Call.pc = "returned"
  /\ ~Falsy(Call.originalVersion)
  /\ ~Call.gotGraph
  /\ Len(Log) >= 3
  /\ fetchCount[Call.packageName] = 1

\* ------------------------------------------------------------------ C11
\* The exchange is a success: fetch resolved, the status is 2xx, the body parsed.
Successful(response) ==
  /\ response.fetch = "resolves"
  /\ response.status \in 200..299
  /\ response.json = "resolves"

\* C11: getPackageInfo, getVersionInfo and getDependencyGraph never throw;
\* they return null on a 404, on any other non-2xx status and on a
\* transport or parse error, and a value only for a successful response.
C11_ClientNeverThrows ==
  pure.done =>
    /\ ~pure.output.threw
    /\ pure.output.null <=> ~Successful(pure.response)

\* A getDependencyGraph request whose 200 body failed to parse has returned.
C11_Witness ==
  /\ pure.done
  /\ pure.fn = "getDependencyGraph"
  /\ pure.response = Response("resolves", 200, "rejects")
  /\ pure.output.null

\* ------------------------------------------------------------------ C12
\* C12: analyzeProject over n >= 1 dependencies returns n package results
\* in declared order, one per analyzePackage call; no call rejects, a call
\* whose analysis raised an error yields found = false with the error, and
\* the other calls' results are there all the same.
C12_OneResultPerDependency ==
  /\ \A t \in DOMAIN task : task[t].pc # "rejected"
  /\ (project.pc = "returned" /\ Len(project.dependencies) >= 1)
       => /\ Len(project.packages) = Len(project.dependencies)
          /\ \A k \in 1..Len(project.dependencies) :
               /\ project.packages[k].packageName = project.dependencies[k].name
               /\ task[k].pc = "done"
               /\ project.packages[k].found = task[k].result.found
               /\ project.packages[k].error = task[k].result.error
               /\ project.packages[k].error => ~project.packages[k].found

\* A project of two dependencies has returned: the analysis of the first
\* raised an error, the second was analysed and found.
C12_Witness ==
  /\ project.pc = "returned"
  /\ Len(project.packages) = 2
  /\ project.packages[1].error
  /\ project.packages[2].found

\* ------------------------------------------------------------------ C13
\* The risk table: 80..100 LOW, 60..79 MEDIUM, 40..59 ELEVATED, 20..39 HIGH,
\* 0..19 CRITICAL.
RiskTable ==
  [score \in 0..100 |->
     CASE score \in 80..100 -> "LOW"
       [] score \in 60..79 -> "MEDIUM"
       [] score \in 40..59 -> "ELEVATED"
       [] score \in 20..39 -> "HIGH"
       [] score \in 0..19 -> "CRITICAL"]

\* C13: every composite score has 0 <= totalScore <= 100 and the risk
\* level the table gives for totalScore.
C13_ScoreInRangeWithRiskLevel ==
  pure.done =>
    /\ pure.output.totalScore \in 0..100
    /\ pure.output.riskLevel = RiskTable[pure.output.totalScore]

\* A composite score of exactly 80 was produced, and it is LOW.
C13_Witness ==
  /\ pure.done
  /\ pure.output.totalScore = 80
  /\ pure.output.riskLevel = "LOW"

\* ------------------------------------------------------------------ C14
\* The penalty of the first band of `bands` (pairs <<limit, penalty>>, limits
\* in hundredths, highest first) whose limit the rate exceeds, 0 if none.
BandPenalty(rate, bands) ==
  LET hit == { k \in 1..Len(bands) : rate > bands[k][1] }
  IN IF hit = {} THEN 0
     ELSE bands[CHOOSE k \in hit : \A o \in hit : k <= o][2]

\* C14: the CVE sub-score is 100 when totalCVEs is 0, and otherwise 100
\* minus one band penalty each on the average, critical and high yearly
\* rates, clamped to 0..100.
C14_CveScoreBands ==
  pure.done =>
    LET cve == pure.cveMetrics
        penalised ==
          100 - BandPenalty(cve.avgCVEsPerYear,
                            << <<1000, 70>>, <<500, 50>>, <<200, 30>>, <<100, 20>>, <<50, 10>> >>)
              - BandPenalty(cve.criticalCVEsPerYear, << <<200, 20>>, <<100, 15>>, <<50, 10>> >>)
              - BandPenalty(cve.highCVEsPerYear, << <<300, 15>>, <<100, 10>> >>)
    IN pure.output.breakdown.historicalCVEs.score =
         IF cve.totalCVEs = 0 THEN 100
         ELSE IF penalised < 0 THEN 0
         ELSE IF penalised > 100 THEN 100
         ELSE penalised

\* The three highest penalties together exceed 100 and the score was clamped to 0.
C14_Witness ==
  /\ pure.done
  /\ pure.cveMetrics.totalCVEs > 0
  /\ pure.cveMetrics.avgCVEsPerYear > 1000
  /\ pure.cveMetrics.criticalCVEsPerYear > 200
  /\ pure.cveMetrics.highCVEsPerYear > 300
  /\ pure.output.breakdown.historicalCVEs.score = 0

\* ------------------------------------------------------------------ C15
\* C15 (as stated): for every maintenance score m and complexity score c,
\* totalScore is the rounded weighted sum taken with m and c themselves, and
\* the breakdown reports m and c.
C15_WeightedSumOfGivenScores ==
  pure.done =>
    LET m == pure.packageMetrics.maintenance.score
        c == pure.packageMetrics.complexity.score
        b == pure.output.breakdown
    IN /\ 100 * pure.output.totalScore + 50 >=
            50 * b.historicalCVEs.score + 10 * m + 15 * c + 15 * b.technicalLag.score + 10 * 50
       /\ 100 * pure.output.totalScore - 50 <
            50 * b.historicalCVEs.score + 10 * m + 15 * c + 15 * b.technicalLag.score + 10 * 50
       /\ b.maintenanceHealth.score = m
       /\ b.dependencyComplexity.score = c

\* ------------------------------------------------------------------ C20
\* C20 (as stated): the check command exits with code 1 whenever the
\* composite score is below 60, and exits normally when the score is 60 or
\* above and the package was found.
C20_CheckExitsOneBelowSixty ==
  pure.exited =>
    /\ pure.output.totalScore < 60 => pure.exitCode = 1
    /\ (pure.output.totalScore >= 60 /\ pure.found) => pure.exitCode = 0

\* ------------------------------------------------------------------ C16
\* The places of the summarised list that hold a package with a score.
Scored == { k \in 1..Len(pure.packages) : pure.packages[k].hasScore }

RECURSIVE SumOver(_, _)
SumOver(places, field) ==
  IF places = {} THEN 0
  ELSE LET k == CHOOSE x \in places : TRUE
       IN (CASE field = "score" -> pure.packages[k].score.totalScore
             [] field = "hours" -> pure.packages[k].score.estimatedAnnualMaintenanceHours
             [] field = "cves" -> pure.packages[k].cveMetrics.totalCVEs
             [] field = "critical" -> pure.packages[k].cveMetrics.bySeverity.CRITICAL)
          + SumOver(places \ {k}, field)

\* Package j ranks before package k: lower score, or the same score and
\* earlier in the list.
RanksBefore(j, k) ==
  \/ pure.packages[j].score.totalScore < pure.packages[k].score.totalScore
  \/ /\ pure.packages[j].score.totalScore = pure.packages[k].score.totalScore
     /\ j < k

\* C16: the summary is null when no package carries a score; otherwise the
\* average is the rounded mean of the scored packages' totals, hours, CVEs
\* and critical CVEs are their sums, the five tier counts add up to their
\* number, and highestRiskPackages lists the min(5, count) lowest-scoring
\* ones in ascending order, ties in encounter order.
C16_ProjectSummary ==
  pure.done =>
    LET out == pure.output
        count == Cardinality(Scored)
    IN /\ out.isNull <=> count = 0
       /\ count > 0 =>
            /\ 2 * count * out.averageScore - count <= 2 * SumOver(Scored, "score")
            /\ 2 * SumOver(Scored, "score") < 2 * count * out.averageScore + count
            /\ out.totalMaintenanceHours = SumOver(Scored, "hours")
            /\ out.totalCVEs = SumOver(Scored, "cves")
            /\ out.totalCriticalCVEs = SumOver(Scored, "critical")
            /\ out.riskDistribution["LOW"] + out.riskDistribution["MEDIUM"]
                 + out.riskDistribution["ELEVATED"] + out.riskDistribution["HIGH"]
                 + out.riskDistribution["CRITICAL"] = count
            /\ Len(out.highestRiskPackages) = (IF count < 5 THEN count ELSE 5)
            /\ \A i \in 1..Len(out.highestRiskPackages) :
                 LET k == out.highestRiskPackages[i].name
                 IN /\ k \in Scored
                    /\ out.highestRiskPackages[i].score = pure.packages[k].score.totalScore
                    /\ out.highestRiskPackages[i].risk = pure.packages[k].score.riskLevel
                    /\ Cardinality({ j \in Scored : RanksBefore(j, k) }) = i - 1

\* A full list with one failed analysis and five scored packages, two of
\* them with the same score: the summary lists the five, the earlier of the
\* pair first.
C16_Witness ==
  /\ pure.done
  /\ Len(pure.packages) = MaxPackages
  /\ Cardinality(Scored) >= 5
  /\ Cardinality(Scored) < Len(pure.packages)
  /\ Len(pure.output.highestRiskPackages) = 5
  /\ \E i \in 1..4 :
       /\ pure.output.highestRiskPackages[i].score = pure.output.highestRiskPackages[i + 1].score
       /\ pure.output.highestRiskPackages[i].name < pure.output.highestRiskPackages[i + 1].name

\* ------------------------------------------------------------------ C17
\* The first place of the node list that holds a versionKey with this pair.
FirstNodeWith(nodes, name, version) ==
  CHOOSE k \in 1..Len(nodes) :
    /\ nodes[k].hasKey /\ nodes[k].name = name /\ nodes[k].version = version
    /\ \A j \in 1..(k - 1) :
         ~(nodes[j].hasKey /\ nodes[j].name = name /\ nodes[j].version = version)

\* C17 (as stated): the output is empty for a null graph or one without a
\* node list; otherwise it has no two entries with the same (name, version),
\* holds for each pair the first node in graph order with that node's
\* relation, keeps graph order, and every entry has a name and a version.
C17_ExtractedPackages ==
  pure.done =>
    LET nodes == pure.graph.nodes
        out == pure.output
    IN /\ (~pure.graph.found \/ ~pure.graph.hasNodes) => out = <<>>
       /\ \A i, j \in 1..Len(out) :
            (out[i].name = out[j].name /\ out[i].version = out[j].version) => i = j
       /\ \A i \in 1..Len(out) :
            /\ \E k \in 1..Len(nodes) :
                 nodes[k].hasKey /\ nodes[k].name = out[i].name
                   /\ nodes[k].version = out[i].version
            /\ out[i].relation =
                 LET first == nodes[FirstNodeWith(nodes, out[i].name, out[i].version)]
                 IN IF first.relation = "" THEN "UNKNOWN" ELSE first.relation
       /\ \A i, j \in 1..Len(out) :
            i < j => FirstNodeWith(nodes, out[i].name, out[i].version)
                       < FirstNodeWith(nodes, out[j].name, out[j].version)
       /\ \A i \in 1..Len(out) : out[i].name # NoName /\ ~Falsy(out[i].version)

\* The positions of a finding list that carry a publish date.
Dated(vulnerabilities) ==
  { i \in 1..Len(vulnerabilities) : vulnerabilities[i].published # NoDate }

\* C18: in calculateCVEMetrics the divisor effectiveYears is at least one
\* year for every finding list, so the average yearly rate is at most
\* totalCVEs and each per-severity yearly rate is at most the matching
\* bySeverity count; a finding without a publish date is counted in totalCVEs
\* and in bySeverity, but in no year bucket and not in the oldest/newest span.
C18_EffectiveYearsAtLeastOne ==
  (pure.fn = "calculateCVEMetrics" /\ pure.done) =>
    LET vulns == pure.vulnerabilities
        out == pure.output
        dated == Dated(vulns)
        days == { vulns[i].published : i \in dated }
    IN /\ effectiveYears(yearsOfData(CveScan(vulns))) >= YearUnits
       /\ out.totalCVEs = Len(vulns)
       /\ out.avgCVEsPerYear <= 100 * out.totalCVEs
       /\ out.criticalCVEsPerYear <= 100 * out.bySeverity["CRITICAL"]
       /\ out.highCVEsPerYear <= 100 * out.bySeverity["HIGH"]
       /\ out.moderateCVEsPerYear <= 100 * out.bySeverity["MODERATE"]
       /\ out.lowCVEsPerYear <= 100 * out.bySeverity["LOW"]
       /\ \A s \in SeverityNames :
            out.bySeverity[s]
              = Cardinality({ i \in 1..Len(vulns) : SeverityOf(vulns[i]) = s })
       /\ DOMAIN out.byYear = { getFullYear(d) : d \in days }
       /\ \A y \in DOMAIN out.byYear :
            out.byYear[y]
              = Cardinality({ i \in dated : getFullYear(vulns[i].published) = y })
       /\ IF dated = {}
            THEN out.oldestCVE = NoDate /\ out.newestCVE = NoDate
            ELSE /\ out.oldestCVE \in days /\ \A d \in days : out.oldestCVE <= d
                 /\ out.newestCVE \in days /\ \A d \in days : out.newestCVE >= d

\* Two findings published on one day and a third without a date: the span is
\* zero, the divisor is one year and the yearly rate equals the total of three.
C18_Witness ==
  /\ pure.fn = "calculateCVEMetrics"
  /\ pure.done
  /\ Len(pure.vulnerabilities) = 3
  /\ Cardinality(Dated(pure.vulnerabilities)) = 2
  /\ pure.output.oldestCVE = pure.output.newestCVE
  /\ pure.output.oldestCVE # NoDate
  /\ pure.output.avgCVEsPerYear = 300
  /\ pure.output.byYear = [y \in {1970} |-> 2]

\* What the maintenance rules make of a version list, stated on the list
\* itself: the latest publish time decides the staleness band, the number of
\* releases of the trailing two years decides the frequency (releasesPerYear
\* is in tenths, so it is five times that number).
MaintenanceRules(versions, out) ==
  LET dated == { k \in 1..Len(versions) : versions[k].publishedAt # 0 }
      latest == CHOOSE k \in dated :
                  \A q \in dated : versions[q].publishedAt <= versions[k].publishedAt
      recent == Cardinality({ k \in 1..Len(versions) :
                              Now - versions[k].publishedAt < 2 * 365 * DayTicks })
      frequency == out.releaseFrequency
      stale == IF ~out.daysKnown THEN 0
               ELSE IF out.daysSinceLastRelease > 730 THEN 60
               ELSE IF out.daysSinceLastRelease > 365 THEN 40
               ELSE IF out.daysSinceLastRelease > 180 THEN 20
               ELSE IF out.daysSinceLastRelease > 90 THEN 10
               ELSE 0
      infrequent == IF frequency = "abandoned" THEN 30
                    ELSE IF frequency = "low" THEN 15
                    ELSE 0
  IN /\ out.daysKnown <=> dated # {}
     /\ out.daysKnown =>
          /\ DayTicks * out.daysSinceLastRelease <= Now - versions[latest].publishedAt
          /\ Now - versions[latest].publishedAt < DayTicks * (out.daysSinceLastRelease + 1)
     /\ frequency = (IF 5 * recent > 120 THEN "very active"
                     ELSE IF 5 * recent > 60 THEN "active"
                     ELSE IF 5 * recent > 20 THEN "moderate"
                     ELSE IF 5 * recent > 0 THEN "low"
                     ELSE "abandoned")
     /\ out.releasesPerYear = 5 * recent
     /\ out.score = 100 - stale - infrequent
     /\ out.score \in 0..100
     /\ out.activelyMaintained
          <=> (out.daysKnown /\ out.daysSinceLastRelease < 365 /\ frequency # "abandoned")

\* C19 as stated: for every package metadata that is not None the frequency
\* class, the score (100 minus one staleness penalty minus the frequency
\* penalty, within 0..100) and activelyMaintained follow the release history.
C19_MaintenanceOfAnyMetadata ==
  (pure.fn = "calculateMaintenanceMetrics" /\ pure.done /\ pure.packageInfo.found) =>
    MaintenanceRules(pure.packageInfo.versions, pure.output)

\* C19, amended: the rules hold for package metadata that carries a version
\* list (an empty one included); metadata without a version list is treated
\* like None: score 0, frequency "unknown", not actively maintained.
C19_MaintenanceOfVersionList ==
  (pure.fn = "calculateMaintenanceMetrics" /\ pure.done /\ pure.packageInfo.found) =>
    IF pure.packageInfo.hasVersions
      THEN MaintenanceRules(pure.packageInfo.versions, pure.output)
      ELSE /\ pure.output.score = 0
           /\ pure.output.releaseFrequency = "unknown"
           /\ ~pure.output.daysKnown
           /\ ~pure.output.activelyMaintained

\* Twenty-four releases in the last two years, the latest half a day short
\* of 91 days old: exactly 12 a year is "active", not "very active", and 90
\* whole days carry no staleness penalty.
C19_Witness ==
  /\ pure.fn = "calculateMaintenanceMetrics"
  /\ pure.done
  /\ pure.packageInfo.hasVersions
  /\ pure.output.releasesPerYear = 120
  /\ pure.output.releaseFrequency = "active"
  /\ pure.output.daysSinceLastRelease = 90
  /\ Now - SortByDateDesc(pure.packageInfo.versions)[1].publishedAt = 181
  /\ pure.output.score = 100
  /\ pure.output.activelyMaintained

\* ------------------------------------------------------------------ C21
\* The vulnerability queries in flight for package name n, over all the
\* concurrently running analyses.
QueriesInFlight(n) ==
  UNION { { <<t, j>> : j \in { q \in InFlight(task[t]) : task[t].uncachedNames[q] = n } } :
          t \in DOMAIN task }

\* The step stores the settled batch of call t, and n is one of its names.
WritesCache(t, n) ==
  /\ task[t].pc = "awaitBatch"
  /\ InFlight(task[t]) = {}
  /\ task'[t] # task[t]
  /\ \E j \in BatchSlots(task[t], concurrency) : task[t].uncachedNames[j] = n

\* C21: during one analyzeProject run no two vulnerability queries for one
\* package name are in flight at the same time, and a name the shared cache
\* holds is never written again.
C21_OneWriteOneQueryPerName ==
  /\ [](\A n \in Names : Cardinality(QueriesInFlight(n)) <= 1)
  /\ [][\A n \in Names : \A t \in DOMAIN task :
          WritesCache(t, n) => ~vulnCache[n].has]_vars

\* ------------------------------------------------------------------ C22
\* The analyzePackage calls that have started and not yet returned.
BeingAnalysed == { t \in DOMAIN task : task[t].pc \notin {"ready", "done", "rejected"} }

\* C22: during one analyzeProject run with limit N at most N dependencies
\* are being analysed at once, and the vulnerability queries in flight over
\* all of them never number more than N.
C22_AtMostNOutstanding ==
  /\ Cardinality(BeingAnalysed) <= concurrency
  /\ Cardinality(UNION { QueriesInFlight(n) : n \in Names }) <= concurrency

\* ------------------------------------------------------------------ C23
\* C23: when the tree supplied the counts, the complexity record of a
\* package result is consistent with itself: its score is 100 minus the band
\* penalty of its totalDependencies minus the band penalty of its
\* directDependencies, and its complexityLevel is the level of its
\* totalDependencies.
C23_ComplexityRecordConsistent ==
  (/\ pure.fn = "analyzePackage.complexity"
   /\ pure.done
   /\ pure.transitiveResult.totalPackagesInTree > 0) =>
    LET out == pure.output
        total == out.totalDependencies
        direct == out.directDependencies
    IN /\ total = pure.transitiveResult.totalPackagesInTree
       /\ direct = pure.transitiveResult.directPackageCount
       /\ out.score = 100 - (IF total > 500 THEN 50 ELSE IF total > 200 THEN 35
                             ELSE IF total > 100 THEN 20 ELSE IF total > 50 THEN 10 ELSE 0)
                          - (IF direct > 50 THEN 20 ELSE IF direct > 30 THEN 15
                             ELSE IF direct > 15 THEN 10 ELSE IF direct > 5 THEN 5 ELSE 0)
       /\ out.complexityLevel = (IF total > 500 THEN "very high" ELSE IF total > 200 THEN "high"
                                 ELSE IF total > 50 THEN "moderate" ELSE "low")

\* ------------------------------------------------------------------ C24
\* What queryVulnerabilitiesBatch returns for `names` when the cache is
\* empty and every query is answered with the list OSV holds.
RECURSIVE ColdResults(_, _, _)
ColdResults(names, k, results) ==
  IF k > Len(names) THEN results
  ELSE ColdResults(names, k + 1,
                   MapSet(results, names[k], CHOOSE l \in world.osv[names[k]] : TRUE))

\* The getTransitiveCVEMetrics part of the analysis of t has returned.
TreeMeasured(t) == task[t].pc \in {"awaitMetricsInfo", "awaitVersionInfo", "done"}

\* C24: as long as every request was answered from the fixed registry and
\* vulnerability data (no request failed), the CVE metrics and the CVE
\* sub-score of a dependency are those an empty cache gives for the same
\* tree, whatever the cache held when the dependency was analysed.
C24_IndependentOfCacheState ==
  \A t \in DOMAIN task :
    (TreeMeasured(t) /\ world.faults = Min(MaxFaults, 1)) =>
      LET cold == deduplicateVulnerabilities(ColdResults(task[t].ret.packageNames, 1, <<>>))
      IN /\ TreeCveMetrics(task[t].ret.vulns) = TreeCveMetrics(cold)
         /\ calculateCVEScore(TreeCveMetrics(task[t].ret.vulns))
              = calculateCVEScore(TreeCveMetrics(cold))

\* ------------------------------------------------------------------ C25
\* C25: once a concrete version is settled for a dependency (the version the
\* constraint resolved to, or the adopted fallback version), the later
\* version-metadata lookup of its analysis is made for that version.
C25_LookupsUseSettledVersion ==
  \A t \in DOMAIN task :
    (task[t].pc = "awaitVersionInfo" /\ ~Falsy(task[t].resolvedVersion)) =>
      task[t].versionInfoFor = task[t].resolvedVersion

\* ------------------------------------------------------------------ C26
\* C26: a shallow getTransitiveCVEMetrics call never waits for package
\* metadata or for a dependency graph, has issued exactly one vulnerability
\* query, for the root package, when it returns, returns what that query
\* delivered whatever the cache holds, and leaves the cache as it was.
C26_ShallowTouchesNothingElse ==
  /\ [](\A t \in DOMAIN task :
          /\ task[t].pc \notin {"awaitPackageInfo", "awaitGraph", "awaitFallback", "awaitBatch"}
          /\ task[t].graphLog = <<>>
          /\ \A n \in Names : n # task[t].packageName => fetchCount[n] = 0
          /\ task[t].pc = "returned" =>
               /\ fetchCount[task[t].packageName] = 1
               /\ task[t].ret.vulns = VulnsOf(queryVulnerabilities(task[t].answers[1].outcome)))
  /\ [][vulnCache' = vulnCache]_vars

\* A shallow call has returned the advisory OSV holds for its package while
\* the cache handed in holds the empty list for that package.
C26_Witness ==
  \E t \in DOMAIN task :
    /\ task[t].kind = "shallow"
    /\ task[t].pc = "returned"
    /\ vulnCache[task[t].packageName] = [has |-> TRUE, vulns |-> <<>>]
    /\ Len(task[t].ret.vulns) = 1
    /\ fetchCount[task[t].packageName] = 1

\* ------------------------------------------------------------------ C27
\* C27: whatever version resolution and the graph requests produced, the
\* names getTransitiveCVEMetrics hands to the batch fetcher include the root
\* package, and the returned totalPackagesInTree is at least 1.
C27_RootAlwaysQueried ==
  /\ Call.pc \in {"awaitBatch", "returned"} =>
       \E k \in 1..Len(Call.packageNames) : Call.packageNames[k] = Call.packageName
  /\ Call.pc = "returned" =>
       /\ Call.ret.totalPackagesInTree >= 1
       /\ fetchCount[Call.packageName] >= 1 \/ Call.entryCache[Call.packageName].has

\* ------------------------------------------------------------------ C28
\* The slots of a call's uncachedNames that hold name n and have been queried.
QueriedSlots(tk, n) ==
  { j \in 1..Len(tk.answers) : tk.uncachedNames[j] = n /\ tk.answers[j].state # "idle" }

\* The call of queryVulnerabilitiesBatch made by task t has returned.
BatchReturned(tk) ==
  tk.calls >= 1 /\ tk.pc \in {"returned", "awaitMetricsInfo", "awaitVersionInfo", "done"}

\* No name occurs twice in the list.
NoRepeatedName(names) == \A j, k \in 1..Len(names) : names[j] = names[k] => j = k

\* The name was in the call's list and not in the cache when the call started.
UncachedAtStart(tk, n) ==
  /\ \E k \in 1..Len(tk.packageNames) : tk.packageNames[k] = n
  /\ ~tk.entryCache[n].has

\* A step of task t issues at most one query for n, and none if the same
\* call has queried n before.
QueriesAtMostOnce(t, n) ==
  t \in DOMAIN task' =>
    Issued(task[t], task'[t], n)
      + (IF task'[t].calls = task[t].calls THEN Cardinality(QueriedSlots(task[t], n)) ELSE 0) <= 1

\* A call that has returned has queried n if and only if n was uncached
\* when it started, and every query has been answered.
QueriedIfUncached(tk, n) ==
  BatchReturned(tk) =>
    /\ UncachedAtStart(tk, n) <=> QueriedSlots(tk, n) # {}
    /\ \A j \in QueriedSlots(tk, n) : tk.answers[j].state = "done"

\* Nothing is pending any more: the direct call of queryVulnerabilitiesBatch
\* has returned, or analyzeProject has returned.
AllReturned ==
  IF project.pc = "none"
  THEN \A t \in DOMAIN task : task[t].pc = "returned" /\ task[t].calls = 1
  ELSE project.pc = "returned" /\ \A t \in DOMAIN task : task[t].pc = "done"

\* C28 as stated: for every name list and every N >= 1, under fair
\* scheduling queryVulnerabilitiesBatch and analyzeProject return, and each
\* name uncached at the start of a call is queried exactly once by it.
C28_ReturnsAndQueriesOnceAnyList ==
  /\ <>AllReturned
  /\ [](\A t \in DOMAIN task : \A n \in Names : QueriedIfUncached(task[t], n))
  /\ [][\A t \in DOMAIN task : \A n \in Names : QueriesAtMostOnce(t, n)]_vars

\* C28, amended: the same for every name list without a repeated name (the
\* lists getTransitiveCVEMetrics passes are such lists).
C28_ReturnsAndQueriesOnce ==
  /\ <>AllReturned
  /\ [](\A t \in DOMAIN task : \A n \in Names :
          NoRepeatedName(task[t].packageNames) => QueriedIfUncached(task[t], n))
  /\ [][\A t \in DOMAIN task : \A n \in Names :
          NoRepeatedName(task'[t].packageNames) => QueriesAtMostOnce(t, n)]_vars

\* A direct call that needed two batches has returned, or a project run of
\* two dependencies has returned after querying for both.
C28_Witness ==
  \/ /\ project.pc = "none"
     /\ \E t \in DOMAIN task :
          /\ BatchReturned(task[t]) /\ task[t].calls = 1
          /\ NoRepeatedName(task[t].packageNames)
          /\ Len(task[t].uncachedNames) > concurrency
  \/ /\ project.pc = "returned"
     /\ Len(project.dependencies) = 2
     /\ \A t \in DOMAIN task : BatchReturned(task[t]) /\ Len(task[t].uncachedNames) >= 1

\* ------------------------------------------------------------------ C29
\* analyzePackage has scored the package.
PackageScored == pure.fn = "analyzePackage.score" /\ pure.done

\* C29: whatever the three calculators produce, the composite totalScore is
\* at least 12 and at most 95.
C29_TotalScoreBetween12And95 ==
  PackageScored => pure.output.totalScore >= 12 /\ pure.output.totalScore <= 95

\* The lowest score is reached: every sub-score at its minimum.
C29_Witness ==
  /\ PackageScored
  /\ pure.output.totalScore = 12
  /\ pure.output.breakdown.historicalCVEs.score = 0
  /\ pure.output.breakdown.maintenanceHealth.score = 10
  /\ pure.output.breakdown.dependencyComplexity.score = 30
  /\ pure.output.breakdown.technicalLag.score = 10

\* The highest score is reached as well.
HighestScoreReached == PackageScored /\ pure.output.totalScore = 95

\* ------------------------------------------------------------------ C30
\* Some call's query for n failed and the batch it belonged to has been
\* stored: the empty list it degraded to has been written to the cache.
FailureCached(n) ==
  \E t \in DOMAIN task : \E j \in 1..Len(task[t].answers) :
    /\ task[t].uncachedNames[j] = n
    /\ task[t].answers[j].state = "done"
    /\ Failed(task[t].answers[j].outcome)
    /\ j <= task[t].i

\* C30: once the empty list of a failed query is in the shared cache it
\* stays the cache's entry for the name, every call that starts afterwards
\* gets it, and the name is not queried again.
C30_FailureCachedForTheRun ==
  /\ [](\A n \in Names : FailureCached(n) => vulnCache[n].has /\ vulnCache[n].vulns = <<>>)
  /\ [][\A n \in Names : FailureCached(n) =>
          \A t \in DOMAIN task : Issued(task[t], task'[t], n) = 0]_vars

====
